---- MODULE Spec2Model ----
(***************************************************************************)
(* Exercise coaching core of YogaFix: the session state machine of the     *)
(* useExerciseLogic hook (src/App.tsx 343-522) and the geometry evaluator  *)
(* of src/services/poseUtils.ts.                                           *)
(*                                                                         *)
(* React execution model used here.  A handler of the hook (startNextPose, *)
(* resetWorkout, setPhaseManually, processFrameLandmarks, a phase timer    *)
(* callback) runs to completion on the committed state and its state       *)
(* updates are committed together (React batches the setState calls of one *)
(* callback).  The hook's useEffect on [config, phase] is a separate step: *)
(* React runs it after a commit in which config or phase changed, so the   *)
(* committed state is observable (rendered) before the effect acts.        *)
(* effectPending records that such a run is owed.  Other callbacks may run *)
(* while the effect is owed: this admits every order React's scheduler can *)
(* produce and some it cannot (the effect lagging for seconds), so a       *)
(* safety property that holds here holds for the hook.  A callback always  *)
(* reads the committed state: closures staler than one commit are not      *)
(* represented.  The phase timers may fire at any time after they are set  *)
(* (their delays, 5 s each, are not measured).                             *)
(*                                                                         *)
(* Units.  Time is in whole seconds (Date.now() / 1000); angles are in     *)
(* thousandths of a degree; holdProgress is in units of                    *)
(* 1 / POSE_HOLD_SECONDS, so the value 1.0 of the code is                  *)
(* POSE_HOLD_SECONDS here; visibility is in tenths.                        *)
(***************************************************************************)
EXTENDS Integers, Sequences, FiniteSets, TLC

VARIABLES
  config,                 \* prop config: NoConfig or the name of a configuration
  phase,                  \* useState phase
  currentPoseIndex,       \* useState currentPoseIndex
  currentPoseData,        \* useState currentPoseData: Null or a pose name of config.poses
  currentPoseDisplayName, \* useState currentPoseDisplayName
  angleDetails,           \* useState angleDetails
  feedbackMessages,       \* useState feedbackMessages
  holdStartTime,          \* useState holdStartTime: NoHold or a timestamp
  holdProgress,           \* useState holdProgress
  phaseTimeoutRef,        \* the pending timer phaseTimeoutRef designates
  effectPending,          \* the [config, phase] effect is owed a run
  appPhase,               \* App: useState appPhase, the phase the screen shows
  isMounted,              \* VideoFeed: the isMounted flag of its effect
  appEffectPending,       \* App's and VideoFeed's effects are owed a run
  now,                    \* Date.now()
  last,                   \* history: the operation that produced this state
  holdClean,              \* history: no failing frame since the hold timer started
  held,                   \* history: the poses whose hold was completed, in order
  utilArgs,               \* poseUtils: the function called and its arguments
  utilResult,             \* poseUtils: what the call returned
  tts,                    \* useTTS: the hook's state, refs and the synthesizer
  ttsHist                 \* history of the calls of speak and stop

vars == <<config, phase, currentPoseIndex, currentPoseData, currentPoseDisplayName,
          angleDetails, feedbackMessages, holdStartTime, holdProgress,
          phaseTimeoutRef, effectPending, appPhase, isMounted, appEffectPending,
          now, last, holdClean, held, utilArgs, utilResult, tts, ttsHist>>

\* The state of the App component around the hook.
hostVars == <<appPhase, isMounted, appEffectPending>>

\* A call of a function of src/services/poseUtils.ts on its own.
evalVars == <<utilArgs, utilResult>>

\* The speech hook of src/hooks/useTTS.ts with the browser's synthesizer.
ttsVars == <<tts, ttsHist>>

\* The state of the units that are also exercised on their own, apart from
\* the session.
unitVars == <<evalVars, ttsVars>>

----------------------------------------------------------------------------
(* Bounds of the model *)

MaxTime == 6

----------------------------------------------------------------------------
(* src/constants.ts *)

POSE_HOLD_SECONDS == 4

EASY_MODE_TOLERANCE == 20

VisThresholdTenths == 3

MilliDeg == 1000

----------------------------------------------------------------------------
(* src/unnamed/part_000 : enum ExercisePhase *)

ExercisePhase ==
  {"IDLE", "LOADING_CONFIG", "CONFIG_ERROR", "INITIALIZING_POSE", "POSE_INIT_ERROR",
   "DESCRIPTION", "IMAGE", "CORRECTION", "COMPLETED", "CAMERA_ERROR"}

Null == "null"

NoConfig == "no_config"

NoHold == 0

NoTimer == [kind |-> "none", name |-> <<>>]

----------------------------------------------------------------------------
(* Text.  A text is a sequence of fragments, its concatenation; the empty  *)
(* string is <<>>.                                                         *)

\* jointName.replace(/_/g, ' ')
ReplaceUnderscores(name) ==
  CASE name = "left_elbow"     -> "left elbow"
    [] name = "right_elbow"    -> "right elbow"
    [] name = "left_shoulder"  -> "left shoulder"
    [] name = "right_shoulder" -> "right shoulder"
    [] name = "left_knee"      -> "left knee"
    [] name = "t_pose"        -> "t pose"
    [] name = "arms_up"       -> "arms up"
    [] OTHER                  -> name

----------------------------------------------------------------------------
(* Exercise configuration: src/unnamed/part_001 (exercise_config.json),    *)
(* the joints its poses use.                                               *)

JointDefinitions ==
  [left_elbow |->
     [landmarks |-> [A |-> "LEFT_SHOULDER", B |-> "LEFT_ELBOW", C |-> "LEFT_WRIST"]],
   right_elbow |->
     [landmarks |-> [A |-> "RIGHT_SHOULDER", B |-> "RIGHT_ELBOW", C |-> "RIGHT_WRIST"]],
   left_shoulder |->
     [landmarks |-> [A |-> "LEFT_ELBOW", B |-> "LEFT_SHOULDER", C |-> "LEFT_HIP"]],
   right_shoulder |->
     [landmarks |-> [A |-> "RIGHT_ELBOW", B |-> "RIGHT_SHOULDER", C |-> "RIGHT_HIP"]]]

\* A pose's criteria in insertion order (the order for..in visits them).
Criterion(joint, lo, hi, below, above) ==
  [joint |-> joint, angle_range |-> <<lo, hi>>,
   feedback |-> [below_min |-> <<below>>, above_max |-> <<above>>]]

Poses ==
  [t_pose |->
     [display_name |-> <<"T-Pose">>,
      description  |-> <<"Stand straight with your arms extended horizontally to the sides.">>,
      criteria |-> <<
        Criterion("left_elbow", 160, 180,
                  "Straighten your left arm.", "Don't hyperextend your left arm."),
        Criterion("right_elbow", 160, 180,
                  "Straighten your right arm.", "Don't hyperextend your right arm."),
        Criterion("left_shoulder", 80, 100,
                  "Raise your left arm higher.", "Lower your left arm slightly."),
        Criterion("right_shoulder", 80, 100,
                  "Raise your right arm higher.", "Lower your right arm slightly.") >>],
   arms_up |->
     [display_name |-> <<"Arms Up">>,
      description  |-> <<"Stand straight and raise both arms directly above your head.">>,
      criteria |-> <<
        Criterion("left_elbow", 160, 180,
                  "Straighten your left arm.", "Don't hyperextend your left arm."),
        Criterion("right_elbow", 160, 180,
                  "Straighten your right arm.", "Don't hyperextend your right arm."),
        Criterion("left_shoulder", 160, 180,
                  "Raise your left arm fully.", "Relax your left shoulder slightly."),
        Criterion("right_shoulder", 160, 180,
                  "Raise your right arm fully.", "Relax your right shoulder slightly.") >>]]

ExerciseConfig ==
  [joint_definitions |-> JointDefinitions,
   poses             |-> Poses,
   sequence          |-> <<"t_pose", "arms_up">>]

\* A second file fetchConfig can be served: one pose, whose second criterion
\* names a joint that joint_definitions does not define.
UndefinedJointConfig ==
  [joint_definitions |-> JointDefinitions,
   poses |->
     [lunge |->
        [display_name |-> <<"Lunge">>,
         description  |-> <<"Step forward and keep your arms straight.">>,
         criteria |-> <<
           Criterion("left_elbow", 160, 180,
                     "Straighten your left arm.", "Don't hyperextend your left arm."),
           Criterion("front_knee", 80, 100,
                     "Bend your front knee more.", "Bend your front knee less.") >>]],
   sequence |-> <<"lunge">>]

Configs == {"exercise_config", "undefined_joint_config"}

ConfigOf(c) ==
  IF c = "undefined_joint_config" THEN UndefinedJointConfig ELSE ExerciseConfig

\* currentPoseData holds the PoseData object that startNextPose took from the
\* configuration of its render, here by the name of the pose (no two
\* configurations share one); the object outlives a change of configuration.
PoseDataOf(poseName) ==
  LET c == CHOOSE c \in Configs : poseName \in DOMAIN ConfigOf(c).poses
  IN  ConfigOf(c).poses[poseName]

----------------------------------------------------------------------------
(* Geometry evaluator: src/services/poseUtils.ts *)

\* Math.acos(cosAngle) * 180 / Math.PI for cosAngle = dot / (magBa * magBc), as
\* <<dot, magBa^2 * magBc^2, thousandths of a degree>>, for grid vectors.
AcosTable ==
  {
       <<-18, 324, 180000>>, <<-15, 234, 168690>>, <<-13, 169, 180000>>, <<-12, 144, 180000>>,
       <<-12, 169, 157380>>, <<-12, 180, 153435>>, <<-11, 130, 164745>>, <<-10, 100, 180000>>,
       <<-10, 104, 168690>>, <<-9, 81, 180000>>, <<-9, 90, 161565>>, <<-9, 117, 146310>>,
       <<-9, 130, 142125>>, <<-9, 162, 135000>>, <<-8, 64, 180000>>, <<-8, 65, 172875>>,
       <<-8, 80, 153435>>, <<-8, 100, 143130>>, <<-7, 50, 171870>>, <<-7, 65, 150255>>,
       <<-7, 130, 127875>>, <<-6, 36, 180000>>, <<-6, 40, 161565>>, <<-6, 45, 153435>>,
       <<-6, 52, 146310>>, <<-6, 72, 135000>>, <<-6, 100, 126870>>, <<-6, 117, 123690>>,
       <<-6, 180, 116565>>, <<-5, 25, 180000>>, <<-5, 26, 168690>>, <<-5, 50, 135000>>,
       <<-5, 169, 112620>>, <<-4, 16, 180000>>, <<-4, 20, 153435>>, <<-4, 25, 143130>>,
       <<-4, 32, 135000>>, <<-4, 52, 123690>>, <<-4, 65, 119745>>, <<-4, 80, 116565>>,
       <<-3, 9, 180000>>, <<-3, 10, 161565>>, <<-3, 13, 146310>>, <<-3, 18, 135000>>,
       <<-3, 25, 126870>>, <<-3, 45, 116565>>, <<-3, 90, 108435>>, <<-3, 130, 105255>>,
       <<-3, 234, 101310>>, <<-2, 4, 180000>>, <<-2, 5, 153435>>, <<-2, 8, 135000>>,
       <<-2, 13, 123690>>, <<-2, 20, 116565>>, <<-2, 40, 108435>>, <<-2, 104, 101310>>,
       <<-1, 1, 180000>>, <<-1, 2, 135000>>, <<-1, 5, 116565>>, <<-1, 10, 108435>>,
       <<-1, 26, 101310>>, <<-1, 50, 98130>>, <<-1, 65, 97125>>, <<0, 1, 90000>>,
       <<0, 4, 90000>>, <<0, 9, 90000>>, <<0, 16, 90000>>, <<0, 25, 90000>>,
       <<0, 36, 90000>>, <<0, 64, 90000>>, <<0, 81, 90000>>, <<0, 100, 90000>>,
       <<0, 144, 90000>>, <<0, 169, 90000>>, <<0, 324, 90000>>, <<1, 1, 0>>,
       <<1, 2, 45000>>, <<1, 5, 63435>>, <<1, 10, 71565>>, <<1, 26, 78690>>,
       <<1, 50, 81870>>, <<1, 65, 82875>>, <<2, 4, 0>>, <<2, 5, 26565>>,
       <<2, 8, 45000>>, <<2, 13, 56310>>, <<2, 20, 63435>>, <<2, 40, 71565>>,
       <<2, 104, 78690>>, <<3, 9, 0>>, <<3, 10, 18435>>, <<3, 13, 33690>>,
       <<3, 18, 45000>>, <<3, 25, 53130>>, <<3, 45, 63435>>, <<3, 90, 71565>>,
       <<3, 130, 74745>>, <<3, 234, 78690>>, <<4, 16, 0>>, <<4, 20, 26565>>,
       <<4, 25, 36870>>, <<4, 32, 45000>>, <<4, 52, 56310>>, <<4, 65, 60255>>,
       <<4, 80, 63435>>, <<5, 25, 0>>, <<5, 26, 11310>>, <<5, 50, 45000>>,
       <<5, 169, 67380>>, <<6, 36, 0>>, <<6, 40, 18435>>, <<6, 45, 26565>>,
       <<6, 52, 33690>>, <<6, 72, 45000>>, <<6, 100, 53130>>, <<6, 117, 56310>>,
       <<6, 180, 63435>>, <<7, 50, 8130>>, <<7, 65, 29745>>, <<7, 130, 52125>>,
       <<8, 64, 0>>, <<8, 65, 7125>>, <<8, 80, 26565>>, <<8, 100, 36870>>,
       <<9, 81, 0>>, <<9, 90, 18435>>, <<9, 117, 33690>>, <<9, 130, 37875>>,
       <<9, 162, 45000>>, <<10, 100, 0>>, <<10, 104, 11310>>, <<11, 130, 15255>>,
       <<12, 144, 0>>, <<12, 169, 22620>>, <<12, 180, 26565>>, <<13, 169, 0>>,
       <<15, 234, 11310>>, <<18, 324, 0>>
  }

AcosMilliDeg(dot, prod) ==
  (CHOOSE t \in AcosTable : t[1] = dot /\ t[2] = prod)[3]

\* A landmark: grid coordinates x, y and visibility in tenths; Undefined is a
\* visibility field that is absent.
Undefined == -1

Landmark(x, y, visibility) == [x |-> x, y |-> y, visibility |-> visibility]

\* calculateAngle with the zero-length test on the first ray only.
calculateAngle_GuardsFirstRay(p1, p2, p3) ==
  LET ba == <<p1.x - p2.x, p1.y - p2.y>>
      bc == <<p3.x - p2.x, p3.y - p2.y>>
      dotProduct == ba[1] * bc[1] + ba[2] * bc[2]
      magBa2 == ba[1] * ba[1] + ba[2] * ba[2]
      magBc2 == bc[1] * bc[1] + bc[2] * bc[2]
  IN  IF magBa2 = 0 THEN 0
      ELSE IF magBc2 = 0 THEN 90 * MilliDeg
      ELSE AcosMilliDeg(dotProduct, magBa2 * magBc2)

\* The angle p1-p2-p3 at p2 in the (x, y) plane, in thousandths of a degree.
calculateAngle(p1, p2, p3) ==
  LET ba == <<p1.x - p2.x, p1.y - p2.y>>
      bc == <<p3.x - p2.x, p3.y - p2.y>>
      dotProduct == ba[1] * bc[1] + ba[2] * bc[2]
      magBa2 == ba[1] * ba[1] + ba[2] * ba[2]
      magBc2 == bc[1] * bc[1] + bc[2] * bc[2]
  IN  IF magBa2 = 0 \/ magBc2 = 0 THEN 0
      ELSE AcosMilliDeg(dotProduct, magBa2 * magBc2)

\* window.mpVision.PoseLandmarker.PoseLandmark, the detector's enumeration of
\* landmark names (an external table; the eight landmarks the joints use,
\* numbered from 0).
PoseLandmark ==
  [LEFT_SHOULDER |-> 0, LEFT_ELBOW |-> 1, LEFT_WRIST |-> 2, LEFT_HIP |-> 3,
   RIGHT_SHOULDER |-> 4, RIGHT_ELBOW |-> 5, RIGHT_WRIST |-> 6, RIGHT_HIP |-> 7]

\* name.toUpperCase()
ToUpperCase(name) ==
  CASE name = "left_shoulder"  -> "LEFT_SHOULDER"
    [] name = "left_elbow"     -> "LEFT_ELBOW"
    [] name = "left_wrist"     -> "LEFT_WRIST"
    [] name = "left_hip"       -> "LEFT_HIP"
    [] name = "right_shoulder" -> "RIGHT_SHOULDER"
    [] name = "right_elbow"    -> "RIGHT_ELBOW"
    [] name = "right_wrist"    -> "RIGHT_WRIST"
    [] name = "right_hip"      -> "RIGHT_HIP"
    [] OTHER                   -> name

getLandmarkIndex(name) ==
  LET upperName == ToUpperCase(name)
  IN  IF upperName \in DOMAIN PoseLandmark THEN PoseLandmark[upperName] ELSE -1

\* landmarksMp[idx] is defined: JavaScript index idx is within the array.
Present(landmarksMp, idx) == idx + 1 \in DOMAIN landmarksMp

\* landmarksMp[idx], the element at JavaScript index idx.
LandmarkAt(landmarksMp, idx) == landmarksMp[idx + 1]

\* Visible without the comparison with the threshold.
Visible_IgnoresThreshold(lm) ==
  /\ lm.visibility # Undefined
  /\ lm.visibility # 0

\* lm.visibility && lm.visibility > visThreshold
Visible(lm) ==
  /\ lm.visibility # Undefined
  /\ lm.visibility # 0
  /\ lm.visibility > VisThresholdTenths

COLOR_CORRECT == "#00FF00"

COLOR_INCORRECT == "#FF0000"

Point(x, y) == [x |-> x, y |-> y]

AngleDetail(name, angle, is_correct, feedback, p1, p2, p3, color) ==
  [name |-> name, angle |-> angle, is_correct |-> is_correct, feedback |-> feedback,
   p1 |-> p1, p2 |-> p2, p3 |-> p3, color |-> color]

\* WithinRange with the two ends of the widened range excluded.
WithinRange_Strict(currentAngle, minAngle, maxAngle, tolerance) ==
  /\ currentAngle > (minAngle - tolerance) * MilliDeg
  /\ currentAngle < (maxAngle + tolerance) * MilliDeg

\* currentAngle >= (minAngle - tolerance) && currentAngle <= (maxAngle + tolerance)
WithinRange(currentAngle, minAngle, maxAngle, tolerance) ==
  /\ currentAngle >= (minAngle - tolerance) * MilliDeg
  /\ currentAngle <= (maxAngle + tolerance) * MilliDeg

\* The feedback of a joint outside its range.
RangeFeedback(currentAngle, criterion, tolerance) ==
  IF currentAngle < (criterion.angle_range[1] - tolerance) * MilliDeg
  THEN criterion.feedback.below_min
  ELSE criterion.feedback.above_max

\* One iteration of the loop of checkPoseAngles: the details it pushes (none or
\* one) and whether the joint leaves allJointsCorrect true.
CheckJoint(landmarksMp, criterion, jointDefinitions, frameW, frameH, tolerance) ==
  LET jointName == criterion.joint
      origin == Point(0, 0)
  IN
  IF jointName \notin DOMAIN jointDefinitions
  THEN [pushed |-> <<>>, correct |-> FALSE]
  ELSE
    LET jointDef == jointDefinitions[jointName]
        lmIdxA == getLandmarkIndex(jointDef.landmarks.A)
        lmIdxB == getLandmarkIndex(jointDef.landmarks.B)
        lmIdxC == getLandmarkIndex(jointDef.landmarks.C)
    IN
    IF lmIdxA = -1 \/ lmIdxB = -1 \/ lmIdxC = -1
    THEN [pushed |-> << AngleDetail(jointName, -1, FALSE,
                          <<"Landmark definition error for ",
                            ReplaceUnderscores(jointName), ".">>,
                          origin, origin, origin, COLOR_INCORRECT) >>,
          correct |-> FALSE]
    ELSE
      LET lmA_obj == LandmarkAt(landmarksMp, lmIdxA)
          lmB_obj == LandmarkAt(landmarksMp, lmIdxB)
          lmC_obj == LandmarkAt(landmarksMp, lmIdxC)
      IN
      IF \/ ~Present(landmarksMp, lmIdxA)
         \/ ~Present(landmarksMp, lmIdxB)
         \/ ~Present(landmarksMp, lmIdxC)
      THEN [pushed |-> << AngleDetail(jointName, -1, FALSE,
                            <<ReplaceUnderscores(jointName), " points not found on body.">>,
                            origin, origin, origin, COLOR_INCORRECT) >>,
            correct |-> FALSE]
      ELSE
        LET p1 == Point(lmA_obj.x * frameW, lmA_obj.y * frameH)
            p2 == Point(lmB_obj.x * frameW, lmB_obj.y * frameH)
            p3 == Point(lmC_obj.x * frameW, lmC_obj.y * frameH)
        IN
        IF ~(Visible(lmA_obj) /\ Visible(lmB_obj) /\ Visible(lmC_obj))
        THEN [pushed |-> << AngleDetail(jointName, -1, FALSE,
                              <<ReplaceUnderscores(jointName), " not clearly visible.">>,
                              p1, p2, p3, COLOR_INCORRECT) >>,
              correct |-> FALSE]
        ELSE
          LET currentAngle == calculateAngle(lmA_obj, lmB_obj, lmC_obj)
              isCorrect == WithinRange(currentAngle, criterion.angle_range[1],
                                       criterion.angle_range[2], tolerance)
              feedbackMsg == IF isCorrect THEN <<>>
                             ELSE RangeFeedback(currentAngle, criterion, tolerance)
              color == IF isCorrect THEN COLOR_CORRECT ELSE COLOR_INCORRECT
          IN [pushed |-> << AngleDetail(jointName, currentAngle, isCorrect, feedbackMsg,
                                        p1, p2, p3, color) >>,
              correct |-> isCorrect]

RECURSIVE CheckFrom(_, _, _, _, _, _, _)
CheckFrom(i, landmarksMp, poseCriteria, jointDefinitions, frameW, frameH, tolerance) ==
  IF i > Len(poseCriteria)
  THEN [angleDetails |-> <<>>, allJointsCorrect |-> TRUE]
  ELSE
    LET one == CheckJoint(landmarksMp, poseCriteria[i], jointDefinitions,
                          frameW, frameH, tolerance)
        rest == CheckFrom(i + 1, landmarksMp, poseCriteria, jointDefinitions,
                          frameW, frameH, tolerance)
    IN [angleDetails |-> one.pushed \o rest.angleDetails,
        allJointsCorrect |-> one.correct /\ rest.allJointsCorrect]

checkPoseAngles(landmarksMp, poseCriteria, jointDefinitions, frameW, frameH, tolerance) ==
  CheckFrom(1, landmarksMp, poseCriteria, jointDefinitions, frameW, frameH, tolerance)

----------------------------------------------------------------------------
(* Session state machine: useExerciseLogic, src/App.tsx 343-522            *)

\* The hook's state as of the last commit, with the collaborator calls
\* (speak, stop, onPoseInitError) the running callback has made so far.
Cur ==
  [phase |-> phase,
   currentPoseIndex |-> currentPoseIndex,
   currentPoseData |-> currentPoseData,
   currentPoseDisplayName |-> currentPoseDisplayName,
   angleDetails |-> angleDetails,
   feedbackMessages |-> feedbackMessages,
   holdStartTime |-> holdStartTime,
   holdProgress |-> holdProgress,
   phaseTimeoutRef |-> phaseTimeoutRef,
   calls |-> <<>>]

\* speak(text): a request to the announcement queue.
speak(s, text) == [s EXCEPT !.calls = Append(@, [call |-> "speak", text |-> text])]

\* stopTTS(): the "silence now" request.
stopTTS(s) == [s EXCEPT !.calls = Append(@, [call |-> "stop", text |-> <<>>])]

\* onPoseInitError(): the pose-initialization-failed callback of the host.
onPoseInitError(s) ==
  [s EXCEPT !.calls = Append(@, [call |-> "onPoseInitError", text |-> <<>>])]

clearPhaseTimeout(s) == [s EXCEPT !.phaseTimeoutRef = NoTimer]

setPhaseManually(s, newPhase) ==
  LET s1 == clearPhaseTimeout(s)
      s2 == IF newPhase = "POSE_INIT_ERROR" \/ newPhase = "CAMERA_ERROR"
            THEN stopTTS(s1) ELSE s1
  IN  [s2 EXCEPT !.phase = newPhase]

\* ConfigPhaseEffect without the exemption of CONFIG_ERROR in its second branch.
ConfigPhaseEffect_NoErrorGuard(c, s, cfg) ==
  IF cfg # NoConfig /\ c.phase # "INITIALIZING_POSE" /\ c.phase # "POSE_INIT_ERROR"
  THEN [s EXCEPT !.phase = "IDLE", !.currentPoseIndex = -1]
  ELSE IF cfg = NoConfig
       THEN [s EXCEPT !.phase = "LOADING_CONFIG"]
       ELSE s

\* The body of the useEffect on [config, phase]; c is the render it closes over.
ConfigPhaseEffect(c, s, cfg) ==
  IF cfg # NoConfig /\ c.phase # "INITIALIZING_POSE" /\ c.phase # "POSE_INIT_ERROR"
  THEN [s EXCEPT !.phase = "IDLE", !.currentPoseIndex = -1]
  ELSE IF cfg = NoConfig /\ c.phase # "CONFIG_ERROR"
       THEN [s EXCEPT !.phase = "LOADING_CONFIG"]
       ELSE s

\* startNextPose; c is the render it closes over (config, currentPoseIndex,
\* phase), s the state its updates are applied to.
startNextPose(c, s, cfg) ==
  LET s1 == [stopTTS(clearPhaseTimeout(s)) EXCEPT
               !.angleDetails = <<>>, !.feedbackMessages = <<>>,
               !.holdStartTime = NoHold, !.holdProgress = 0]
  IN
  IF cfg = NoConfig
  THEN [s1 EXCEPT !.phase = "CONFIG_ERROR"]
  ELSE IF c.phase = "INITIALIZING_POSE" \/ c.phase = "POSE_INIT_ERROR"
  THEN IF c.phase = "POSE_INIT_ERROR" THEN onPoseInitError(s1) ELSE s1
  ELSE
    LET conf == ConfigOf(cfg)
        nextIndex == c.currentPoseIndex + 1
    IN
    IF nextIndex >= Len(conf.sequence)
    THEN [speak([s1 EXCEPT !.phase = "COMPLETED"], <<"Workout completed! Well done.">>)
            EXCEPT !.currentPoseData = Null,
                   !.currentPoseDisplayName = <<"Workout Complete!">>]
    ELSE
      LET poseName == conf.sequence[nextIndex + 1]
          defined == poseName \in DOMAIN conf.poses
          display_name == IF defined THEN conf.poses[poseName].display_name ELSE <<>>
          displayName == IF display_name # <<>> THEN display_name
                         ELSE <<ReplaceUnderscores(poseName)>>
          poseDescription == IF defined THEN conf.poses[poseName].description ELSE <<>>
          description == IF poseDescription # <<>> THEN poseDescription
                         ELSE <<"Get ready for the next pose.">>
          s2 == [s1 EXCEPT !.currentPoseIndex = nextIndex,
                           !.currentPoseData = IF defined THEN poseName ELSE Null,
                           !.currentPoseDisplayName = displayName,
                           !.phase = "DESCRIPTION"]
          s3 == speak(s2, <<"Next: ">> \o displayName \o <<". ">> \o description)
      IN [s3 EXCEPT !.phaseTimeoutRef = [kind |-> "description", name |-> displayName]]

\* The callback of the description timer (src/App.tsx 422-428, outer).
descriptionTimeout(s) ==
  [s EXCEPT !.phase = "IMAGE",
            !.phaseTimeoutRef = [kind |-> "image", name |-> s.phaseTimeoutRef.name]]

\* The callback of the image timer (src/App.tsx 424-427, inner).  The timer has
\* fired, so phaseTimeoutRef designates no pending timer afterwards.
imageTimeout(s) ==
  speak([s EXCEPT !.phase = "CORRECTION", !.phaseTimeoutRef = NoTimer],
        <<"Hold ">> \o s.phaseTimeoutRef.name \o <<".">>)

\* ClearWorkoutState leaving the hold progress as it was.
ClearWorkoutState_KeepsProgress(s) ==
  [s EXCEPT !.currentPoseIndex = -1,
            !.currentPoseData = Null,
            !.currentPoseDisplayName = <<>>,
            !.angleDetails = <<>>,
            !.feedbackMessages = <<>>,
            !.holdStartTime = NoHold]

\* ClearWorkoutState stepping one pose back instead of before the first.
ClearWorkoutState_StepsBack(s) ==
  [s EXCEPT !.currentPoseIndex = IF @ > -1 THEN @ - 1 ELSE -1,
            !.currentPoseData = Null,
            !.currentPoseDisplayName = <<>>,
            !.angleDetails = <<>>,
            !.feedbackMessages = <<>>,
            !.holdStartTime = NoHold,
            !.holdProgress = 0]

\* The state updates that end resetWorkout (src/App.tsx 439-445).
ClearWorkoutState(s) ==
  [s EXCEPT !.currentPoseIndex = -1,
            !.currentPoseData = Null,
            !.currentPoseDisplayName = <<>>,
            !.angleDetails = <<>>,
            !.feedbackMessages = <<>>,
            !.holdStartTime = NoHold,
            !.holdProgress = 0]

resetWorkout(c, s, cfg) ==
  LET s1 == stopTTS(clearPhaseTimeout(s))
      s2 == IF /\ cfg # NoConfig
               /\ c.phase # "INITIALIZING_POSE" /\ c.phase # "POSE_INIT_ERROR"
               /\ c.phase # "LOADING_CONFIG" /\ c.phase # "CONFIG_ERROR"
            THEN [s1 EXCEPT !.phase = "IDLE"] ELSE s1
  IN ClearWorkoutState(s2)

Min(a, b) == IF a <= b THEN a ELSE b

\* SliceFirst without the cap: the whole array.
SliceFirst_Uncapped(array, n) == array

\* array.slice(0, n)
SliceFirst(array, n) == SubSeq(array, 1, Min(n, Len(array)))

\* newAngleDetails.filter(d => !d.is_correct && d.feedback).map(d => d.feedback)
RECURSIVE IncorrectFeedbacks(_)
IncorrectFeedbacks(details) ==
  IF details = <<>> THEN <<>>
  ELSE LET detail == Head(details)
           rest == IncorrectFeedbacks(Tail(details))
       IN  IF ~detail.is_correct /\ detail.feedback # <<>>
           THEN <<detail.feedback>> \o rest ELSE rest

\* HoldProgressAt giving the seconds held instead of their share of the hold
\* duration (elapsed, in units of 1 / POSE_HOLD_SECONDS).
HoldProgressAt_Seconds(elapsed) == elapsed * POSE_HOLD_SECONDS

\* HoldProgressAt counting the time that remains instead of the time held.
HoldProgressAt_Remaining(elapsed) ==
  IF elapsed >= POSE_HOLD_SECONDS THEN 0 ELSE POSE_HOLD_SECONDS - elapsed

\* Math.min(elapsed / POSE_HOLD_SECONDS, 1), in units of 1 / POSE_HOLD_SECONDS.
HoldProgressAt(elapsed) == Min(elapsed, POSE_HOLD_SECONDS)

\* A frame from the detector: landmarks is null (present = FALSE) or the array
\* points.
NullFrame == [present |-> FALSE, points |-> <<>>]

ArrayFrame(points) == [present |-> TRUE, points |-> points]

\* The guard of processFrameLandmarks that a frame must pass to be evaluated.
Evaluates(c, cfg) ==
  c.phase = "CORRECTION" /\ c.currentPoseData # Null /\ cfg # NoConfig

NoBody(landmarks) == ~landmarks.present \/ Len(landmarks.points) = 0

\* if (holdStartTime) setHoldStartTime(null)
ClearHoldStart(c, s) ==
  [s EXCEPT !.holdStartTime = IF c.holdStartTime # NoHold THEN NoHold ELSE @]

\* SkipFrame that also empties the feedback list.
SkipFrame_ClearsFeedback(c, s) ==
  [ClearHoldStart(c, s) EXCEPT !.holdProgress = IF c.holdStartTime = NoHold THEN 0 ELSE @,
                               !.feedbackMessages = <<>>]

\* The frame is not evaluated (src/App.tsx 454-458).
SkipFrame(c, s) ==
  [ClearHoldStart(c, s) EXCEPT !.holdProgress = IF c.holdStartTime = NoHold THEN 0 ELSE @]

\* NoBodyDetected keeping the angle details of the frame before.
NoBodyDetected_KeepsDetails(c, s) ==
  [ClearHoldStart(c, s) EXCEPT
     !.feedbackMessages = << <<"Cannot see you clearly. Adjust your position.">> >>,
     !.holdProgress = 0]

\* No body in the frame (src/App.tsx 460-466).
NoBodyDetected(c, s) ==
  [ClearHoldStart(c, s) EXCEPT
     !.feedbackMessages = << <<"Cannot see you clearly. Adjust your position.">> >>,
     !.angleDetails = <<>>,
     !.holdProgress = 0]

\* HoldBroken leaving the hold timer running.
HoldBroken_KeepsTimer(c, s) == [s EXCEPT !.holdProgress = 0]

\* HoldBroken leaving the hold progress as it was.
HoldBroken_KeepsProgress(c, s) == ClearHoldStart(c, s)

\* Not every joint is correct (src/App.tsx 500-503).
HoldBroken(c, s) ==
  [ClearHoldStart(c, s) EXCEPT !.holdProgress = 0]

\* Every joint is correct (src/App.tsx 485-499); t is Date.now().
HoldCorrect(c, s, cfg, t) ==
  IF c.holdStartTime = NoHold
  THEN [s EXCEPT !.holdStartTime = t, !.holdProgress = 0]
  ELSE
    LET elapsed == t - c.holdStartTime
        s1 == [s EXCEPT !.holdProgress = HoldProgressAt(elapsed)]
    IN  IF elapsed >= POSE_HOLD_SECONDS
        THEN startNextPose(c,
               [speak(s1, <<"Great!">>) EXCEPT !.holdStartTime = NoHold,
                                               !.holdProgress = 0],
               cfg)
        ELSE s1

\* processFrameLandmarks; c is the render it closes over (phase,
\* currentPoseData, config, holdStartTime), s the state its updates are applied
\* to, t the value of Date.now().
processFrameLandmarks(c, s, cfg, landmarks, frameWidth, frameHeight, t) ==
  IF ~Evaluates(c, cfg) THEN SkipFrame(c, s)
  ELSE IF NoBody(landmarks) THEN NoBodyDetected(c, s)
  ELSE
    LET conf == ConfigOf(cfg)
        result == checkPoseAngles(landmarks.points,
                                  PoseDataOf(c.currentPoseData).criteria,
                                  conf.joint_definitions,
                                  frameWidth, frameHeight, EASY_MODE_TOLERANCE)
        incorrectFeedbacks == IncorrectFeedbacks(result.angleDetails)
        s1 == [s EXCEPT !.angleDetails = result.angleDetails,
                        !.feedbackMessages = SliceFirst(incorrectFeedbacks, 2)]
    IN  IF result.allJointsCorrect THEN HoldCorrect(c, s1, cfg, t)
        ELSE HoldBroken(c, s1)

----------------------------------------------------------------------------
(* Inputs *)

\* The canvas size VideoFeed passes with each frame (the camera's size).
DEFAULT_CAMERA_WIDTH == 1280

DEFAULT_CAMERA_HEIGHT == 720

\* A frame of the eight landmarks in the order of PoseLandmark, all with
\* visibility v: the left shoulder, elbow, wrist and hip as given, the right
\* ones their mirror images about the line x = 2.
Body(shoulder, elbow, wrist, hip, v) ==
  ArrayFrame(<< Landmark(shoulder[1], shoulder[2], v), Landmark(elbow[1], elbow[2], v),
                Landmark(wrist[1], wrist[2], v), Landmark(hip[1], hip[2], v),
                Landmark(4 - shoulder[1], shoulder[2], v),
                Landmark(4 - elbow[1], elbow[2], v),
                Landmark(4 - wrist[1], wrist[2], v),
                Landmark(4 - hip[1], hip[2], v) >>)

\* Arms horizontal: elbows 180, shoulders 90 (t_pose is all-correct).
TPoseFrame == Body(<<2, 1>>, <<1, 1>>, <<0, 1>>, <<2, 2>>, 9)

\* Arms straight up: elbows 180, shoulders 180 (arms_up is all-correct).
ArmsUpFrame == Body(<<2, 2>>, <<2, 1>>, <<2, 0>>, <<2, 3>>, 9)

\* Arms horizontal, elbows bent to 90.
BentFrame == Body(<<2, 1>>, <<1, 1>>, <<1, 0>>, <<2, 2>>, 9)

\* Arms horizontal, every landmark below the visibility threshold.
LowVisibilityFrame == Body(<<2, 1>>, <<1, 1>>, <<0, 1>>, <<2, 2>>, 2)

Frames ==
  {NullFrame, ArrayFrame(<<>>), TPoseFrame, ArmsUpFrame, BentFrame,
   LowVisibilityFrame}

----------------------------------------------------------------------------
(* The state machine *)

\* What a frame did, for the history variable.
FrameKind(c, cfg, landmarks) ==
  IF ~Evaluates(c, cfg) THEN "skipped"
  ELSE IF NoBody(landmarks) THEN "nobody"
  ELSE IF checkPoseAngles(landmarks.points,
                          PoseDataOf(c.currentPoseData).criteria,
                          ConfigOf(cfg).joint_definitions,
                          DEFAULT_CAMERA_WIDTH, DEFAULT_CAMERA_HEIGHT,
                          EASY_MODE_TOLERANCE).allJointsCorrect
       THEN "ok" ELSE "bad"

\* A frame of the given kind completes the hold: every joint is correct and
\* the hold timer has run for POSE_HOLD_SECONDS (src/App.tsx 485-493).
HoldCompletes(kind) ==
  /\ kind = "ok"
  /\ holdStartTime # NoHold
  /\ now - holdStartTime >= POSE_HOLD_SECONDS

\* The state an operation started from, as far as the properties read it.
Pre ==
  [resetFrom |-> IF last.op = "reset" THEN last.pre.phase ELSE "-",
   phase |-> phase, currentPoseIndex |-> currentPoseIndex,
   currentPoseData |-> currentPoseData,
   holdStartTime |-> holdStartTime, holdProgress |-> holdProgress,
   holdClean |-> holdClean,
   okRun |-> last.op = "frame" /\ last.frame = "ok" /\ ~last.advanced]

Last(op, frame, advanced, s) ==
  [op |-> op, frame |-> frame, advanced |-> advanced,
   calls |-> s.calls, pre |-> Pre]

\* Commit the state s a callback leaves; the effect is owed a run when phase
\* changed (its dependencies are [config, phase]).
Commit(s) ==
  /\ phase' = s.phase
  /\ currentPoseIndex' = s.currentPoseIndex
  /\ currentPoseData' = s.currentPoseData
  /\ currentPoseDisplayName' = s.currentPoseDisplayName
  /\ angleDetails' = s.angleDetails
  /\ feedbackMessages' = s.feedbackMessages
  /\ holdStartTime' = s.holdStartTime
  /\ holdProgress' = s.holdProgress
  /\ phaseTimeoutRef' = s.phaseTimeoutRef

----------------------------------------------------------------------------
(* src/hooks/useTTS.ts: the speech hook *)

\* window.speechSynthesis
SpeechSynthesis == "speechSynthesis"

\* No utterance: the value of currentUtteranceRef and of the synthesizer's
\* speaking slot when they hold none.
NoUtterance == [text |-> 0, isSpeaking |-> FALSE]

\* The empty string, for which speak does nothing; the texts of the calls are
\* numbered from 1 in the order of the calls.
EmptyText == 0

\* new SpeechSynthesisUtterance(textToSpeak) with the onend and onerror
\* handlers of processQueue: they hold the processQueue that made the
\* utterance, named here by the isSpeaking it closed over.
Utterance(textToSpeak, closure) == [text |-> textToSpeak, isSpeaking |-> closure]

\* The hook after its first render, before its effects: isSpeaking is the
\* state as of the last setIsSpeaking, rendered the isSpeaking of the last
\* render (what its processQueue and speak closed over), closures those of all
\* renders so far, queueRef the queue of texts. The synthesizer holds the
\* utterances passed to it that wait (synthQueue), the one it speaks
\* (synthSpeaking), the ones a cancel removed and whose end or error event is
\* still to come (synthCancelled), and a record of what was passed to it
\* (synthLog) and of the texts it began to speak (spoken). timers are the
\* setTimeout(processQueue, TTS_DELAY * 1000) calls still to fire.
TtsInit ==
  [mounted             |-> FALSE,
   synthRef            |-> Null,
   isSpeaking          |-> FALSE,
   rendered            |-> FALSE,
   closures            |-> {FALSE},
   effectPending       |-> TRUE,
   queueRef            |-> <<>>,
   currentUtteranceRef |-> NoUtterance,
   synthQueue          |-> <<>>,
   synthSpeaking       |-> NoUtterance,
   synthCancelled      |-> {},
   synthLog            |-> <<>>,
   spoken              |-> {},
   timers              |-> <<>>]

\* History: the number of speak calls so far, the texts that stop found queued
\* and not yet spoken, and the last operation.
TtsHistInit == [texts |-> 0, discarded |-> {}, op |-> "init"]

\* synthRef.current.cancel(): every utterance leaves the synthesizer; each is
\* owed an end or error event.
Cancel(t) ==
  [t EXCEPT !.synthQueue = <<>>,
            !.synthSpeaking = NoUtterance,
            !.synthCancelled =
               t.synthCancelled
                 \cup {t.synthQueue[i] : i \in DOMAIN t.synthQueue}
                 \cup ({t.synthSpeaking} \ {NoUtterance})]

\* processQueue of the render whose isSpeaking was closure.
processQueue(t, closure) ==
  IF t.synthRef = Null \/ closure \/ Len(t.queueRef) = 0
    THEN t
    ELSE LET textToSpeak == Head(t.queueRef)
             utterance == Utterance(textToSpeak, closure)
         IN  [t EXCEPT !.queueRef = Tail(t.queueRef),
                       !.isSpeaking = TRUE,
                       !.currentUtteranceRef = utterance,
                       !.synthQueue = Append(t.synthQueue, utterance),
                       !.synthLog = Append(t.synthLog, textToSpeak)]

\* utterance.onend and utterance.onerror, which have the same body.
OnEndOrError(t, utterance) ==
  [t EXCEPT !.isSpeaking = FALSE,
            !.currentUtteranceRef = NoUtterance,
            !.timers = Append(t.timers, utterance.isSpeaking)]

\* speak of the render whose isSpeaking was closure.
useTTS_speak(t, text, closure) ==
  IF t.synthRef = Null \/ text = EmptyText
    THEN t
    ELSE processQueue([t EXCEPT !.queueRef = Append(t.queueRef, text)], closure)

\* stop that leaves the queue as it is.
useTTS_stop_KeepsQueue(t) ==
  [(IF t.synthRef # Null THEN Cancel(t) ELSE t)
     EXCEPT !.isSpeaking = FALSE,
            !.currentUtteranceRef = NoUtterance]

useTTS_stop(t) ==
  [(IF t.synthRef # Null THEN Cancel(t) ELSE t)
     EXCEPT !.queueRef = <<>>,
            !.isSpeaking = FALSE,
            !.currentUtteranceRef = NoUtterance]

----------------------------------------------------------------------------

\* No function of poseUtils is being called on its own.
NoCall == [fn |-> "none"]

NotReturned == [returned |-> FALSE]

\* The variables of the session, of App and of the histories.
sessionVars ==
  <<config, phase, currentPoseIndex, currentPoseData, currentPoseDisplayName,
    angleDetails, feedbackMessages, holdStartTime, holdProgress,
    phaseTimeoutRef, effectPending, appPhase, isMounted, appEffectPending,
    now, last, holdClean, held>>

SessionInit ==
  /\ config = NoConfig
  /\ phase = "IDLE"
  /\ currentPoseIndex = -1
  /\ currentPoseData = Null
  /\ currentPoseDisplayName = <<>>
  /\ angleDetails = <<>>
  /\ feedbackMessages = <<>>
  /\ holdStartTime = NoHold
  /\ holdProgress = 0
  /\ phaseTimeoutRef = NoTimer
  /\ effectPending = TRUE
  /\ appPhase = "LOADING_CONFIG"
  /\ isMounted = FALSE
  /\ appEffectPending = TRUE
  /\ now = 1
  /\ holdClean = TRUE
  /\ held = <<>>
  /\ last = [op |-> "init", frame |-> "-", advanced |-> FALSE, calls |-> <<>>,
             pre |-> [resetFrom |-> "-", phase |-> "IDLE", currentPoseIndex |-> -1,
                      currentPoseData |-> Null,
                      holdStartTime |-> NoHold, holdProgress |-> 0,
                      holdClean |-> TRUE, okRun |-> FALSE]]

Init ==
  /\ SessionInit
  /\ utilArgs = NoCall
  /\ utilResult = NotReturned
  /\ tts = TtsInit
  /\ ttsHist = TtsHistInit

\* fetchConfig succeeds: setConfig(data) (src/App.tsx 88).
LoadConfig ==
  /\ config = NoConfig
  /\ \E c \in Configs : config' = c
  /\ effectPending' = TRUE
  /\ last' = Last("load", "-", FALSE, Cur)
  /\ UNCHANGED <<phase, currentPoseIndex, currentPoseData, currentPoseDisplayName,
                 angleDetails, feedbackMessages, holdStartTime, holdProgress,
                 phaseTimeoutRef, now, holdClean, held>>
  /\ UNCHANGED hostVars
  /\ UNCHANGED unitVars

\* Commit the state s that the [config, phase] effect leaves.
CommitEffect(s) ==
  /\ Commit(s)
  /\ effectPending' = (s.phase # phase)
  /\ last' = Last("effect", "-", FALSE, s)
  /\ UNCHANGED <<config, now, holdClean, held>>

\* Commit the state s that the callback op of the hook leaves.
CommitCall(op, s) ==
  /\ Commit(s)
  /\ effectPending' = (effectPending \/ s.phase # phase)
  /\ last' = Last(op, "-", FALSE, s)
  /\ UNCHANGED <<config, now, holdClean, held>>

\* React runs the [config, phase] effect.
RunEffect ==
  /\ effectPending
  /\ CommitEffect(ConfigPhaseEffect(Cur, Cur, config))
  /\ UNCHANGED hostVars
  /\ UNCHANGED unitVars

\* The host calls startNextPose.
StartNextPose ==
  /\ CommitCall("start", startNextPose(Cur, Cur, config))
  /\ UNCHANGED hostVars
  /\ UNCHANGED unitVars

\* The description timer fires.
DescriptionTimeout ==
  /\ phaseTimeoutRef.kind = "description"
  /\ CommitCall("description_timeout", descriptionTimeout(Cur))
  /\ UNCHANGED hostVars
  /\ UNCHANGED unitVars

\* The image timer fires.
ImageTimeout ==
  /\ phaseTimeoutRef.kind = "image"
  /\ CommitCall("image_timeout", imageTimeout(Cur))
  /\ UNCHANGED hostVars
  /\ UNCHANGED unitVars

\* The host forces a phase.
SetPhaseManually ==
  \E newPhase \in ExercisePhase :
    /\ CommitCall("manual", setPhaseManually(Cur, newPhase))
    /\ UNCHANGED hostVars
    /\ UNCHANGED unitVars

\* The host calls resetWorkout.
ResetWorkout ==
  /\ CommitCall("reset", resetWorkout(Cur, Cur, config))
  /\ UNCHANGED hostVars
  /\ UNCHANGED unitVars

\* Commit the state s that processFrameLandmarks leaves for a frame of the
\* given kind.
CommitFrame(kind, s) ==
  /\ Commit(s)
  /\ effectPending' = (effectPending \/ s.phase # phase)
  /\ last' = Last("frame", kind, s.phase # phase, s)
  /\ holdClean' = CASE kind = "ok" /\ holdStartTime = NoHold -> TRUE
                    [] kind \in {"nobody", "bad"} -> FALSE
                    [] OTHER -> holdClean
  /\ held' = IF HoldCompletes(kind) THEN Append(held, currentPoseData) ELSE held
  /\ UNCHANGED <<config, now>>

\* The detector delivers a frame.
ProcessFrame ==
  \E landmarks \in Frames :
    /\ CommitFrame(FrameKind(Cur, config, landmarks),
                   processFrameLandmarks(Cur, Cur, config, landmarks,
                                         DEFAULT_CAMERA_WIDTH, DEFAULT_CAMERA_HEIGHT, now))
    /\ UNCHANGED hostVars
    /\ UNCHANGED unitVars

\* Time passes.
Tick ==
  /\ now < MaxTime
  /\ now' = now + 1
  /\ UNCHANGED <<config, phase, currentPoseIndex, currentPoseData,
                 currentPoseDisplayName, angleDetails, feedbackMessages,
                 holdStartTime, holdProgress, phaseTimeoutRef, effectPending,
                 last, holdClean, held>>
  /\ UNCHANGED hostVars
  /\ UNCHANGED unitVars

Next ==
  \/ LoadConfig
  \/ RunEffect
  \/ StartNextPose
  \/ DescriptionTimeout
  \/ ImageTimeout
  \/ SetPhaseManually
  \/ ResetWorkout
  \/ ProcessFrame
  \/ Tick

Spec == Init /\ [][Next]_vars

\* The host passes another configuration: the config prop changes, which the
\* effect on [config, phase] is owed a run for.
ReplaceConfig ==
  /\ config # NoConfig
  /\ \E c \in Configs \ {config} : config' = c
  /\ effectPending' = TRUE
  /\ last' = Last("reconfig", "-", FALSE, Cur)
  /\ UNCHANGED <<phase, currentPoseIndex, currentPoseData, currentPoseDisplayName,
                 angleDetails, feedbackMessages, holdStartTime, holdProgress,
                 phaseTimeoutRef, now, holdClean, held>>
  /\ UNCHANGED hostVars
  /\ UNCHANGED unitVars

ReconfigNext ==
  \/ Next
  \/ ReplaceConfig

\* The hook under a host that may also change the configuration it passes.
ReconfigSpec == Init /\ [][ReconfigNext]_vars

----------------------------------------------------------------------------
(* The App component around the hook: src/App.tsx 12-313, with the         *)
(* callbacks src/components/VideoFeed.tsx makes.  Under Spec the hook is   *)
(* driven by an arbitrary host and the variables of hostVars stand still;  *)
(* under AppSpec the hook is driven by App alone.  AppEffects is one pass  *)
(* of React over the effects owed after a commit: VideoFeed's (it is a     *)
(* child), then App's in the order of their declaration, all closing over  *)
(* the same render, their state updates applied in that order.             *)

\* The render a callback of App closes over, and the state its updates are
\* applied to: appPhase and the hook's state.
AppCur == [appPhase |-> appPhase, logic |-> Cur]

\* src/App.tsx 251-256 and 260: VideoFeed is rendered.
showVideoFeed(a, cfg) ==
  /\ a \in {"IDLE", "INITIALIZING_POSE", "DESCRIPTION", "IMAGE", "CORRECTION"}
  /\ cfg # NoConfig

handleCameraError(g) == [g EXCEPT !.appPhase = "CAMERA_ERROR"]

handlePoseInitError(g) == [g EXCEPT !.appPhase = "POSE_INIT_ERROR"]

handlePoseInitReady(g) ==
  [g EXCEPT !.appPhase = "IDLE", !.logic = setPhaseManually(@, "IDLE")]

\* The onPoseInitError calls the hook made reach App's handlePoseInitError.
DeliverPoseInitError(g) ==
  IF \E i \in 1..Len(g.logic.calls) : g.logic.calls[i].call = "onPoseInitError"
  THEN handlePoseInitError(g) ELSE g

\* The effect that copies the hook's phase to appPhase (src/App.tsx 51-60).
SyncPhaseEffect(c, g) ==
  IF c.appPhase \notin {"CAMERA_ERROR", "POSE_INIT_ERROR", "LOADING_CONFIG",
                        "CONFIG_ERROR", "INITIALIZING_POSE"}
  THEN [g EXCEPT !.appPhase = c.logic.phase]
  ELSE g

\* The effect that starts the detector's initialisation once the
\* configuration is loaded (src/App.tsx 63-68).
InitPhaseEffect(c, g, cfg) ==
  IF cfg # NoConfig /\ c.appPhase = "LOADING_CONFIG"
  THEN [g EXCEPT !.appPhase = "INITIALIZING_POSE",
                 !.logic = setPhaseManually(@, "INITIALIZING_POSE")]
  ELSE g

\* One pass over the owed effects: the hook's config/phase effect if
\* hookOwed, App's two phase effects if appOwed.
AppEffects(c, g, cfg, hookOwed, appOwed) ==
  LET g1 == IF hookOwed
            THEN [g EXCEPT !.logic = ConfigPhaseEffect(c.logic, @, cfg)] ELSE g
      g2 == IF appOwed THEN SyncPhaseEffect(c, g1) ELSE g1
  IN  IF appOwed THEN InitPhaseEffect(c, g2, cfg) ELSE g2

handleStartWorkout(c, g, cfg) ==
  IF c.appPhase = "IDLE" /\ c.logic.phase = "IDLE"
  THEN DeliverPoseInitError([g EXCEPT !.logic = startNextPose(c.logic, @, cfg)])
  ELSE g

handleResetWorkout(c, g, cfg) ==
  LET g1 == [g EXCEPT !.logic = resetWorkout(c.logic, @, cfg)]
  IN  IF cfg # NoConfig
      THEN [g1 EXCEPT !.appPhase = "IDLE", !.logic = setPhaseManually(@, "IDLE")]
      ELSE [g1 EXCEPT !.appPhase = "LOADING_CONFIG"]

handleLandmarks(c, g, cfg, landmarks, frameWidth, frameHeight, t) ==
  IF c.appPhase = "CORRECTION" /\ c.logic.phase = "CORRECTION"
  THEN DeliverPoseInitError(
         [g EXCEPT !.logic = processFrameLandmarks(c.logic, @, cfg, landmarks,
                                                    frameWidth, frameHeight, t)])
  ELSE g

\* VideoFeed's isMounted after a commit that shows appPhase a.  A commit that
\* removes VideoFeed runs the clean-up of its effect
\* (src/components/VideoFeed.tsx 219-220) either within the commit or with the
\* next pass over the effects, as the React version in use does; until then
\* the callbacks of VideoFeed still see isMounted true.
Unmount(a) ==
  \E within \in BOOLEAN :
    isMounted' = IF within THEN isMounted /\ showVideoFeed(a, config)
                 ELSE isMounted

\* Commit the state g a callback of App leaves; the effects are owed a run
\* when one of their dependencies (config, phase, appPhase) changed.
AppCommit(op, g) ==
  /\ Commit(g.logic)
  /\ appPhase' = g.appPhase
  /\ effectPending' = (effectPending \/ g.logic.phase # phase)
  /\ appEffectPending' =
       (appEffectPending \/ g.logic.phase # phase \/ g.appPhase # appPhase)
  /\ last' = Last(op, "-", FALSE, g.logic)
  /\ Unmount(g.appPhase)
  /\ UNCHANGED <<config, now, holdClean, held>>
  /\ UNCHANGED unitVars

\* Commit the state g that handleLandmarks leaves for a frame of the given
\* kind.
AppCommitFrame(kind, g) ==
  /\ Commit(g.logic)
  /\ appPhase' = g.appPhase
  /\ effectPending' = (effectPending \/ g.logic.phase # phase)
  /\ appEffectPending' =
       (appEffectPending \/ g.logic.phase # phase \/ g.appPhase # appPhase)
  /\ last' = Last("frame", kind, g.logic.phase # phase, g.logic)
  /\ holdClean' = CASE kind = "ok" /\ holdStartTime = NoHold -> TRUE
                    [] kind \in {"nobody", "bad"} -> FALSE
                    [] OTHER -> holdClean
  /\ held' = IF HoldCompletes(kind) THEN Append(held, currentPoseData) ELSE held
  /\ Unmount(g.appPhase)
  /\ UNCHANGED <<config, now>>
  /\ UNCHANGED unitVars

\* Commit the state g a pass over the effects leaves: an effect that changed
\* one of the dependencies owes a further pass.
AppCommitEffects(g) ==
  /\ Commit(g.logic)
  /\ appPhase' = g.appPhase
  /\ effectPending' = (g.logic.phase # phase)
  /\ appEffectPending' = (g.logic.phase # phase \/ g.appPhase # appPhase)
  /\ last' = Last("effect", "-", FALSE, g.logic)

\* fetchConfig succeeds (src/App.tsx 83-88).
FetchConfig ==
  /\ config = NoConfig /\ appPhase = "LOADING_CONFIG"
  /\ \E c \in Configs : config' = c
  /\ effectPending' = TRUE
  /\ appEffectPending' = TRUE
  /\ last' = Last("load", "-", FALSE, Cur)
  /\ UNCHANGED <<phase, currentPoseIndex, currentPoseData, currentPoseDisplayName,
                 angleDetails, feedbackMessages, holdStartTime, holdProgress,
                 phaseTimeoutRef, appPhase, isMounted, now, holdClean, held>>
  /\ UNCHANGED unitVars

\* fetchConfig fails (src/App.tsx 90-94).
FetchConfigFailed ==
  /\ config = NoConfig /\ appPhase = "LOADING_CONFIG"
  /\ AppCommit("load_failed", [AppCur EXCEPT !.appPhase = "CONFIG_ERROR"])

\* React runs the owed effects; VideoFeed is mounted or unmounted as the
\* render they close over shows it or not.
RunAppEffects ==
  /\ effectPending \/ appEffectPending
  /\ AppCommitEffects(AppEffects(AppCur, AppCur, config,
                                 effectPending, appEffectPending))
  /\ isMounted' = showVideoFeed(appPhase, config)
  /\ UNCHANGED <<config, now, holdClean, held>>
  /\ UNCHANGED unitVars

\* The camera cannot be opened: getVideoDevices (src/App.tsx 109-116, run
\* whenever appPhase is neither LOADING_CONFIG nor CONFIG_ERROR) or VideoFeed's
\* setupCamera (src/components/VideoFeed.tsx 75-79, 171).
CameraError ==
  /\ appPhase \notin {"LOADING_CONFIG", "CONFIG_ERROR"}
  /\ AppCommit("camera_error", handleCameraError(AppCur))

\* The detector cannot be initialised (src/components/VideoFeed.tsx 174-177,
\* 187-193).
PoseInitError ==
  /\ isMounted
  /\ AppCommit("pose_init_error", handlePoseInitError(AppCur))

\* The detector is initialised (src/components/VideoFeed.tsx 162-164).
PoseInitReady ==
  /\ isMounted
  /\ AppCommit("pose_init_ready", handlePoseInitReady(AppCur))

\* The user presses Start Workout (shown in the phase IDLE).
StartWorkout ==
  /\ appPhase = "IDLE"
  /\ AppCommit("start", handleStartWorkout(AppCur, AppCur, config))

\* The user presses Reset Workout or Start Over (src/App.tsx 238-243, 296-308).
PressReset ==
  /\ appPhase \in {"DESCRIPTION", "IMAGE", "CORRECTION", "COMPLETED"}
  /\ AppCommit("reset", handleResetWorkout(AppCur, AppCur, config))

\* The description timer fires.
AppDescriptionTimeout ==
  /\ phaseTimeoutRef.kind = "description"
  /\ AppCommit("description_timeout", [AppCur EXCEPT !.logic = descriptionTimeout(@)])

\* The image timer fires.
AppImageTimeout ==
  /\ phaseTimeoutRef.kind = "image"
  /\ AppCommit("image_timeout", [AppCur EXCEPT !.logic = imageTimeout(@)])

\* VideoFeed delivers a frame to handleLandmarks.
Landmarks ==
  /\ isMounted
  /\ \E landmarks \in Frames :
       AppCommitFrame(
         IF appPhase = "CORRECTION" /\ phase = "CORRECTION"
         THEN FrameKind(Cur, config, landmarks) ELSE "ignored",
         handleLandmarks(AppCur, AppCur, config, landmarks,
                         DEFAULT_CAMERA_WIDTH, DEFAULT_CAMERA_HEIGHT, now))

AppNext ==
  \/ FetchConfig
  \/ FetchConfigFailed
  \/ RunAppEffects
  \/ CameraError
  \/ PoseInitError
  \/ PoseInitReady
  \/ StartWorkout
  \/ PressReset
  \/ AppDescriptionTimeout
  \/ AppImageTimeout
  \/ Landmarks
  \/ Tick

AppSpec == Init /\ [][AppNext]_vars

----------------------------------------------------------------------------
(* A workout that nothing disturbs: the shipped configuration loads, the
   detector becomes ready, the user starts from IDLE and neither resets nor
   meets an error, and every frame evaluated in CORRECTION is all-correct *)

\* fetchConfig succeeds with exercise_config.json.
LiveFetchConfig ==
  /\ FetchConfig
  /\ config' = "exercise_config"

\* The detector becomes ready, once.
LivePoseInitReady ==
  /\ appPhase = "INITIALIZING_POSE"
  /\ PoseInitReady

\* VideoFeed delivers a frame that, when it is evaluated, has every joint of
\* the current pose in range.
LiveLandmarks ==
  /\ Landmarks
  /\ last'.frame \in {"ok", "ignored", "skipped"}

\* The user presses Start Workout, once: no pose has been presented yet.
LiveStartWorkout ==
  /\ currentPoseDisplayName = <<>>
  /\ StartWorkout

LiveNext ==
  \/ LiveFetchConfig
  \/ RunAppEffects
  \/ LivePoseInitReady
  \/ LiveStartWorkout
  \/ AppDescriptionTimeout
  \/ AppImageTimeout
  \/ LiveLandmarks
  \/ Tick

\* React runs the effects it owes, pending timers fire, frames keep coming and
\* time passes.
LiveFairness ==
  /\ WF_vars(RunAppEffects)
  /\ WF_vars(AppDescriptionTimeout)
  /\ WF_vars(AppImageTimeout)
  /\ WF_vars(LiveLandmarks)
  /\ WF_vars(Tick)

LiveSpec == Init /\ [][LiveNext]_vars /\ LiveFairness

----------------------------------------------------------------------------
(* The functions of src/services/poseUtils.ts called on their own: the     *)
(* initial state holds the arguments of one call, the call returns once.   *)

\* Most criteria in one set of criteria of a call.
MaxCriteria == 2

\* Largest grid coordinate of a point passed to calculateAngle.
MaxCoord == 2

\* Joint definitions of the calls: two of exercise_config.json, and one whose
\* landmark B is a name the detector's enumeration does not have.
EvalJointDefinitions ==
  [left_elbow    |-> JointDefinitions.left_elbow,
   left_shoulder |-> JointDefinitions.left_shoulder,
   right_elbow   |->
     [landmarks |-> [A |-> "RIGHT_SHOULDER", B |-> "RIGHT_ELBO", C |-> "RIGHT_WRIST"]]]

\* Criteria of the calls: the elbow and the shoulder with ranges on both sides
\* of the angles the landmarks below make, the joint with the misspelt
\* landmark, and a joint that has no definition.
EvalCriteria ==
  {Criterion("left_elbow", r[1], r[2],
             "Straighten your left arm.", "Don't hyperextend your left arm.") :
     r \in {<<160, 180>>, <<110, 130>>, <<111, 130>>, <<50, 70>>, <<50, 69>>}}
  \cup
  {Criterion("left_shoulder", r[1], r[2],
             "Raise your left arm higher.", "Lower your left arm slightly.") :
     r \in {<<80, 100>>, <<110, 130>>, <<111, 130>>, <<50, 69>>}}
  \cup
  {Criterion("right_elbow", 160, 180,
             "Straighten your right arm.", "Don't hyperextend your right arm."),
   Criterion("front_knee", 80, 100,
             "Bend your front knee more.", "Bend your front knee less.")}

\* A criteria object has one entry per joint name, in insertion order.
EvalCriteriaSets ==
  {s \in UNION {[1..n -> EvalCriteria] : n \in 0..MaxCriteria} :
     \A i, j \in 1..Len(s) : i # j => s[i].joint # s[j].joint}

\* Landmark lists of the calls: none; shoulder and elbow only; and shoulder,
\* elbow, wrist and hip, the shoulder at 90 degrees, the wrist making an elbow
\* of 180, 135 or 90 degrees or lying on the elbow, with a visibility that is
\* absent, zero, at the threshold or above it.
EvalLandmarkLists ==
  { <<>>, << Landmark(2, 1, 9), Landmark(1, 1, 9) >> }
  \cup
  { << Landmark(2, 1, 9), Landmark(1, 1, 9), Landmark(w[1], w[2], v),
       Landmark(2, 2, 9) >> :
      w \in {<<0, 1>>, <<0, 0>>, <<1, 0>>, <<1, 1>>},
      v \in {Undefined, 0, VisThresholdTenths, VisThresholdTenths + 1} }

CheckPoseAnglesCalls ==
  [fn : {"checkPoseAngles"},
   landmarksMp : EvalLandmarkLists,
   poseCriteria : EvalCriteriaSets,
   jointDefinitions : {EvalJointDefinitions},
   frameW : {DEFAULT_CAMERA_WIDTH}, frameH : {DEFAULT_CAMERA_HEIGHT},
   tolerance : {0, EASY_MODE_TOLERANCE}]

\* A LandmarkPoint with its optional z.
EvalPoints == [x : 0..MaxCoord, y : 0..MaxCoord, z : {0, 1}]

CalculateAngleCalls ==
  [fn : {"calculateAngle"}, p1 : EvalPoints, p2 : EvalPoints, p3 : EvalPoints]

EvalInit ==
  /\ SessionInit
  /\ utilArgs \in CheckPoseAnglesCalls \cup CalculateAngleCalls
  /\ utilResult = NotReturned
  /\ tts = TtsInit
  /\ ttsHist = TtsHistInit

\* The call of checkPoseAngles returns.
CheckPoseAngles ==
  /\ utilArgs.fn = "checkPoseAngles"
  /\ ~utilResult.returned
  /\ utilResult' =
       [returned |-> TRUE,
        value |-> checkPoseAngles(utilArgs.landmarksMp, utilArgs.poseCriteria,
                                  utilArgs.jointDefinitions, utilArgs.frameW,
                                  utilArgs.frameH, utilArgs.tolerance)]
  /\ UNCHANGED <<sessionVars, utilArgs, ttsVars>>

\* The call of calculateAngle returns.
CalculateAngle ==
  /\ utilArgs.fn = "calculateAngle"
  /\ ~utilResult.returned
  /\ utilResult' =
       [returned |-> TRUE,
        value |-> calculateAngle(utilArgs.p1, utilArgs.p2, utilArgs.p3)]
  /\ UNCHANGED <<sessionVars, utilArgs, ttsVars>>

EvalNext ==
  \/ CheckPoseAngles
  \/ CalculateAngle

EvalSpec == EvalInit /\ [][EvalNext]_vars

----------------------------------------------------------------------------
(* The speech hook on its own: its host calls speak and stop, React renders
   it and runs its effects, and the synthesizer and the timers call back *)

\* The number of speak calls with a text.
MaxSpeakCalls == 3

TtsCommit(op, t, texts, discarded) ==
  /\ tts' = t
  /\ ttsHist' = [texts |-> texts, discarded |-> discarded, op |-> op]
  /\ UNCHANGED <<sessionVars, evalVars>>

\* The texts the hook or the synthesizer holds that the synthesizer has not
\* begun to speak.
Undelivered(t) ==
  {t.queueRef[i] : i \in DOMAIN t.queueRef}
    \cup {t.synthQueue[i].text : i \in DOMAIN t.synthQueue}

\* The effects of the first render: the one that sets synthRef, in a browser
\* with or without speechSynthesis, then the one that calls processQueue.
TtsMountEffects ==
  /\ ~tts.mounted
  /\ \E supported \in BOOLEAN :
       TtsCommit("mount",
                 processQueue([tts EXCEPT !.mounted = TRUE,
                                          !.synthRef = IF supported THEN SpeechSynthesis
                                                       ELSE Null,
                                          !.effectPending = FALSE],
                              tts.rendered),
                 ttsHist.texts, ttsHist.discarded)

\* The host calls speak, the one of the last render or one it kept from an
\* earlier render, with the next text or with the empty string.
TtsSpeak ==
  /\ tts.mounted
  /\ ttsHist.texts < MaxSpeakCalls
  /\ \E closure \in tts.closures, text \in {EmptyText, ttsHist.texts + 1} :
       TtsCommit("speak", useTTS_speak(tts, text, closure),
                 IF text = EmptyText THEN ttsHist.texts ELSE text,
                 ttsHist.discarded)

\* The host calls stop.
TtsStop ==
  /\ tts.mounted
  /\ TtsCommit("stop", useTTS_stop(tts), ttsHist.texts,
               ttsHist.discarded \cup Undelivered(tts))

\* React renders the hook after isSpeaking changed: processQueue and speak are
\* made anew and the effect on [isSpeaking, processQueue] is owed a run.
TtsRender ==
  /\ tts.mounted
  /\ ~tts.effectPending
  /\ tts.isSpeaking # tts.rendered
  /\ TtsCommit("render",
               [tts EXCEPT !.rendered = tts.isSpeaking,
                           !.closures = @ \cup {tts.isSpeaking},
                           !.effectPending = TRUE],
               ttsHist.texts, ttsHist.discarded)

\* The effect on [isSpeaking, processQueue] runs.
TtsEffect ==
  /\ tts.mounted
  /\ tts.effectPending
  /\ TtsCommit("effect",
               processQueue([tts EXCEPT !.effectPending = FALSE], tts.rendered),
               ttsHist.texts, ttsHist.discarded)

\* A setTimeout(processQueue, TTS_DELAY * 1000) fires.
TtsDelayTimer ==
  /\ tts.timers # <<>>
  /\ TtsCommit("timer",
               processQueue([tts EXCEPT !.timers = Tail(@)], Head(tts.timers)),
               ttsHist.texts, ttsHist.discarded)

\* The synthesizer begins to speak the first utterance that waits.
SynthBegin ==
  /\ tts.synthSpeaking = NoUtterance
  /\ tts.synthQueue # <<>>
  /\ TtsCommit("begin",
               [tts EXCEPT !.synthSpeaking = Head(tts.synthQueue),
                           !.synthQueue = Tail(@),
                           !.spoken = @ \cup {Head(tts.synthQueue).text}],
               ttsHist.texts, ttsHist.discarded)

\* The utterance the synthesizer speaks ends: onend.
UtteranceEnd ==
  /\ tts.synthSpeaking # NoUtterance
  /\ TtsCommit("end",
               OnEndOrError([tts EXCEPT !.synthSpeaking = NoUtterance],
                            tts.synthSpeaking),
               ttsHist.texts, ttsHist.discarded)

\* The utterance the synthesizer speaks fails: onerror.
UtteranceError ==
  /\ tts.synthSpeaking # NoUtterance
  /\ TtsCommit("error",
               OnEndOrError([tts EXCEPT !.synthSpeaking = NoUtterance],
                            tts.synthSpeaking),
               ttsHist.texts, ttsHist.discarded)

\* The end or error event of an utterance that a cancel removed arrives.
CancelledUtteranceEvent ==
  \E utterance \in tts.synthCancelled :
    TtsCommit("cancelled",
              OnEndOrError([tts EXCEPT !.synthCancelled = @ \ {utterance}],
                           utterance),
              ttsHist.texts, ttsHist.discarded)

TtsNext ==
  \/ TtsMountEffects
  \/ TtsSpeak
  \/ TtsStop
  \/ TtsRender
  \/ TtsEffect
  \/ TtsDelayTimer
  \/ SynthBegin
  \/ UtteranceEnd
  \/ UtteranceError
  \/ CancelledUtteranceEvent

TtsSpec == Init /\ [][TtsNext]_vars

----------------------------------------------------------------------------
(* App hands the speak and stop of useTTS to useExerciseLogic *)

\* The speech hook mounted in a browser with speechSynthesis, as of a render
\* with the given isSpeaking.
TtsMounted(isSpeaking) ==
  [TtsInit EXCEPT !.mounted = TRUE,
                  !.synthRef = SpeechSynthesis,
                  !.effectPending = FALSE,
                  !.isSpeaking = isSpeaking,
                  !.rendered = isSpeaking,
                  !.closures = {isSpeaking}]

\* The speech hook after the requests calls[i], calls[i + 1], ... of one
\* callback of useExerciseLogic, made in that order within one render; the
\* text of a speak request is named by its position in calls.
RECURSIVE DeliverCalls(_, _, _)
DeliverCalls(calls, i, t) ==
  IF i > Len(calls) THEN t
  ELSE DeliverCalls(calls, i + 1,
                    CASE calls[i].call = "speak" -> useTTS_speak(t, i, t.rendered)
                      [] calls[i].call = "stop"  -> useTTS_stop(t)
                      [] OTHER -> t)

----------------------------------------------------------------------------
(* Properties *)

\* The operations only the host issues.
HostCommands == {"start", "manual", "reset", "load"}

\* The position of a pose in the sequence of the loaded configuration.
PositionOf(poseName) ==
  CHOOSE i \in 1..Len(ConfigOf(config).sequence) : ConfigOf(config).sequence[i] = poseName

LifecyclePhases ==
  {"LOADING_CONFIG", "CONFIG_ERROR", "INITIALIZING_POSE", "POSE_INIT_ERROR", "CAMERA_ERROR"}

\* C1: once startNextPose has entered DESCRIPTION for a pose, and until the
\* host resets, overrides or starts again, the phase is DESCRIPTION until the
\* description timer fires, then IMAGE until the image timer fires, then
\* CORRECTION; no other phase is seen and the pose index does not change.
C1_DescriptionImageCorrection ==
  [][ ( /\ config # NoConfig
        /\ \/ phase = "DESCRIPTION" /\ phaseTimeoutRef.kind = "description"
           \/ phase = "IMAGE" /\ phaseTimeoutRef.kind = "image"
        /\ last' # last
        /\ last'.op \notin HostCommands )
      => /\ currentPoseIndex' = currentPoseIndex
         /\ phase' = CASE last'.op = "description_timeout" -> "IMAGE"
                       [] last'.op = "image_timeout" -> "CORRECTION"
                       [] OTHER -> phase ]_vars

\* C2: a frame that completes the hold moves the session to DESCRIPTION of the
\* pose that follows the held one, with the pose index one higher.
C2_HoldAdvancesToNextPose ==
  ( /\ last.op = "frame" /\ last.advanced
    /\ PositionOf(last.pre.currentPoseData) < Len(ConfigOf(config).sequence) )
  => /\ phase = "DESCRIPTION"
     /\ currentPoseIndex = last.pre.currentPoseIndex + 1
     /\ currentPoseData =
          ConfigOf(config).sequence[PositionOf(last.pre.currentPoseData) + 1]

\* C3: holding the last pose of the sequence ends in COMPLETED with the pose
\* data cleared, and the phase stays COMPLETED until the host resets (or
\* overrides or starts again).
C3_LastPoseCompletes ==
  [][ LET holdsLastPose ==
            /\ last'.op = "frame" /\ last'.advanced /\ last' # last
            /\ PositionOf(currentPoseData) = Len(ConfigOf(config).sequence)
          completedByHold ==
            /\ phase = "COMPLETED" /\ last.op = "frame" /\ last.advanced
            /\ last' # last /\ last'.op \notin HostCommands
      IN  /\ holdsLastPose => (phase' = "COMPLETED" /\ currentPoseData' = Null)
          /\ completedByHold => (phase' = "COMPLETED") ]_vars

\* C4: a phase timer fires only in the phase that scheduled it: the
\* description timer in DESCRIPTION, the image timer in IMAGE.
C4_TimerFiresInItsPhase ==
  /\ last.op = "description_timeout" => last.pre.phase = "DESCRIPTION"
  /\ last.op = "image_timeout" => last.pre.phase = "IMAGE"

\* C5: in a lifecycle phase no step of the core (effect, phase timer, frame,
\* startNextPose) changes the phase.
C5_LifecyclePhasesAreTerminal ==
  [][ ( /\ phase \in LifecyclePhases
        /\ last' # last
        /\ last'.op \in {"effect", "description_timeout", "image_timeout",
                         "frame", "start"} )
      => phase' = phase ]_vars

\* The hook's state, without the collaborator calls of the callback that left it.
StateOf(s) == [s EXCEPT !.calls = <<>>]

\* C6: after resetWorkout the pose index is -1, pose data, display name, angle
\* details and feedback are cleared, the hold timer is unset, the hold progress
\* is 0 and no phase timer is pending; the phase is IDLE when the configuration
\* is loaded and the phase was not a waiting state of configuration or
\* detector, and is that waiting state otherwise.
C6_ResetClearsSession ==
  last.op = "reset" =>
    /\ currentPoseIndex = -1
    /\ currentPoseData = Null
    /\ currentPoseDisplayName = <<>>
    /\ angleDetails = <<>>
    /\ feedbackMessages = <<>>
    /\ holdStartTime = NoHold
    /\ holdProgress = 0
    /\ phaseTimeoutRef = NoTimer
    /\ phase = IF /\ config # NoConfig
                  /\ last.pre.phase \notin {"INITIALIZING_POSE", "POSE_INIT_ERROR",
                                            "LOADING_CONFIG", "CONFIG_ERROR"}
               THEN "IDLE" ELSE last.pre.phase

\* A reset that interrupted a running hold in CORRECTION.
C6_Witness ==
  /\ last.op = "reset" /\ last.pre.phase = "CORRECTION"
  /\ last.pre.holdStartTime # NoHold /\ last.pre.holdProgress > 0
  /\ phase = "IDLE"

\* C7: from every reachable state, resetting twice in a row leaves the same
\* state as resetting once.
C7_ResetIdempotent ==
  LET once == StateOf(resetWorkout(Cur, Cur, config))
      twice == StateOf(resetWorkout(once, once, config))
  IN  twice = once

\* A second reset in a row, the first of which interrupted CORRECTION.
C7_Witness ==
  /\ last.op = "reset" /\ last.pre.resetFrom = "CORRECTION"
  /\ currentPoseIndex = -1 /\ phase = "IDLE"

\* C8: the core leaves CORRECTION for DESCRIPTION or COMPLETED only by a frame
\* that is all-correct, with the hold timer running for at least the hold
\* duration and no failing or no-body frame processed since it started.
C8_AdvanceOnlyAfterCleanHold ==
  ( /\ last.pre.phase = "CORRECTION"
    /\ phase \in {"DESCRIPTION", "COMPLETED"}
    /\ last.op \notin HostCommands )
  => /\ last.op = "frame" /\ last.frame = "ok" /\ last.advanced
     /\ last.pre.holdStartTime # NoHold
     /\ now - last.pre.holdStartTime >= POSE_HOLD_SECONDS
     /\ last.pre.holdClean

\* A hold that started after the first second and was completed by a frame.
C8_Witness ==
  /\ last.op = "frame" /\ last.advanced /\ last.pre.phase = "CORRECTION"
  /\ phase = "DESCRIPTION"
  /\ last.pre.holdStartTime > 1

\* C9: of two all-correct frames processed one after the other in CORRECTION,
\* the second not completing the hold, the second leaves a hold progress no
\* lower than the first.
C9_ProgressMonotone ==
  ( /\ last.op = "frame" /\ last.frame = "ok" /\ ~last.advanced
    /\ last.pre.okRun )
  => holdProgress >= last.pre.holdProgress

\* A third all-correct frame in a row that raised a progress already above 0.
C9_Witness ==
  /\ last.op = "frame" /\ last.frame = "ok" /\ ~last.advanced /\ last.pre.okRun
  /\ last.pre.holdProgress > 0
  /\ holdProgress > last.pre.holdProgress

\* C10: a body-detected frame with a joint incorrect or undeterminable,
\* processed in CORRECTION, unsets the hold timer and sets the hold progress to
\* 0; the phase stays CORRECTION and the pose index is unchanged.
C10_FailingFrameResetsHold ==
  (last.op = "frame" /\ last.frame = "bad")
  => /\ holdStartTime = NoHold
     /\ holdProgress = 0
     /\ phase = "CORRECTION"
     /\ last.pre.phase = "CORRECTION"
     /\ currentPoseIndex = last.pre.currentPoseIndex

\* A failing frame that broke a hold with progress above 0.
C10_Witness ==
  /\ last.op = "frame" /\ last.frame = "bad"
  /\ last.pre.holdStartTime # NoHold /\ last.pre.holdProgress > 0
  /\ phase = "CORRECTION"

\* C11: a null or empty frame in CORRECTION leaves exactly the one feedback
\* "Cannot see you clearly...", no angle details, no hold timer and progress 0;
\* phase and pose index are unchanged and nothing is announced or silenced.
C11_NoBodyFrame ==
  (last.op = "frame" /\ last.frame = "nobody")
  => /\ feedbackMessages = << <<"Cannot see you clearly. Adjust your position.">> >>
     /\ angleDetails = <<>>
     /\ holdStartTime = NoHold
     /\ holdProgress = 0
     /\ phase = "CORRECTION" /\ last.pre.phase = "CORRECTION"
     /\ currentPoseIndex = last.pre.currentPoseIndex
     /\ currentPoseData = last.pre.currentPoseData
     /\ last.calls = <<>>

\* A no-body frame interrupted a hold under way, after a frame with details.
C11_Witness ==
  /\ last.op = "frame" /\ last.frame = "nobody"
  /\ last.pre.okRun /\ last.pre.holdProgress > 0
  /\ angleDetails = <<>> /\ holdProgress = 0

\* The positions of the incorrect joints among the angle details.
IncorrectJoints == {i \in 1..Len(angleDetails) : ~angleDetails[i].is_correct}

\* C12: the session never exposes more than two feedback texts, and after a
\* body-detected frame processed in CORRECTION the exposed list is the feedback
\* of the first two incorrect joints, in the order the criteria were evaluated.
C12_FeedbackCappedAtTwo ==
  /\ Len(feedbackMessages) <= 2
  /\ (last.op = "frame" /\ last.frame \in {"ok", "bad"})
     => /\ Len(feedbackMessages) = Min(2, Cardinality(IncorrectJoints))
        /\ \A k \in 1..Len(feedbackMessages) :
             \E i \in IncorrectJoints :
               /\ Cardinality({j \in IncorrectJoints : j < i}) = k - 1
               /\ feedbackMessages[k] = angleDetails[i].feedback

\* A frame on which more than two joints are incorrect: two texts are exposed.
C12_Witness ==
  /\ last.op = "frame" /\ last.frame = "bad"
  /\ Cardinality(IncorrectJoints) > 2
  /\ Len(feedbackMessages) = 2

\* C13: hold_progress is within [0, 1] in every reachable state (1 is
\* POSE_HOLD_SECONDS in the units of the model).
C13_ProgressInUnitInterval ==
  0 <= holdProgress /\ holdProgress <= POSE_HOLD_SECONDS

\* A frame left the progress at its largest value short of completion.
C13_Witness ==
  /\ last.op = "frame" /\ last.frame = "ok"
  /\ holdProgress = POSE_HOLD_SECONDS - 1

\* The phases in which the detector is not ready.
DetectorNotReady == {"INITIALIZING_POSE", "POSE_INIT_ERROR"}

\* C14: startNextPose while the detector is not ready (configuration loaded)
\* changes nothing of the session state and requests neither an announcement
\* nor silence.
C14_StartWhenNotReadyIsNoOp ==
  [][ ( /\ phase \in DetectorNotReady /\ config # NoConfig
        /\ last' # last /\ last'.op = "start" )
      => /\ phase' = phase
         /\ currentPoseIndex' = currentPoseIndex
         /\ currentPoseData' = currentPoseData
         /\ currentPoseDisplayName' = currentPoseDisplayName
         /\ angleDetails' = angleDetails
         /\ feedbackMessages' = feedbackMessages
         /\ holdStartTime' = holdStartTime
         /\ holdProgress' = holdProgress
         /\ phaseTimeoutRef' = phaseTimeoutRef
         /\ \A i \in 1..Len(last'.calls) :
              last'.calls[i].call \notin {"speak", "stop"} ]_vars

\* C15: startNextPose without a configuration sets CONFIG_ERROR, leaves the
\* pose index alone, schedules no phase timer and announces nothing; while the
\* configuration is missing, only a manual override leaves CONFIG_ERROR.
C15_StartWithoutConfig ==
  [][ /\ ( last'.op = "start" /\ config' = NoConfig )
         => /\ phase' = "CONFIG_ERROR"
            /\ currentPoseIndex' = last'.pre.currentPoseIndex
            /\ phaseTimeoutRef' = NoTimer
            /\ \A i \in 1..Len(last'.calls) : last'.calls[i].call # "speak"
      /\ ( /\ config = NoConfig /\ config' = NoConfig
           /\ phase = "CONFIG_ERROR"
           /\ last'.op # "manual" )
         => phase' = "CONFIG_ERROR" ]_vars

\* startNextPose was refused for want of a configuration, and the
\* config/phase effect is owed a run on the CONFIG_ERROR it left.
C15_Witness ==
  /\ last.op = "start" /\ config = NoConfig
  /\ last.pre.phase = "LOADING_CONFIG" /\ phase = "CONFIG_ERROR"
  /\ effectPending

\* The error-class phases.
ErrorClassPhases == {"CONFIG_ERROR", "POSE_INIT_ERROR", "CAMERA_ERROR"}

\* C16: a manual override leaves no phase timer pending, and an override to an
\* error-class phase requests that speech be silenced.
C16_OverrideCancelsAndSilences ==
  last.op = "manual"
  => /\ phaseTimeoutRef = NoTimer
     /\ phase \in ErrorClassPhases
        => \E i \in 1..Len(last.calls) : last.calls[i].call = "stop"


\* C17: when the camera-failed or the detector-failed callback fires, the
\* session is forced into the corresponding error state and speech is
\* silenced (a stop request is made); from then on, until a reset, no step
\* requests an announcement and no phase timer changes the session phase.
HardFailure == {"CAMERA_ERROR", "POSE_INIT_ERROR"}

Requests(calls, what) == \E i \in 1..Len(calls) : calls[i].call = what

C17_HardFailureSilences ==
  [][ /\ last'.op = "camera_error"
         => appPhase' = "CAMERA_ERROR"
            /\ Requests(last'.calls, "stop")
      /\ last'.op = "pose_init_error"
         => appPhase' = "POSE_INIT_ERROR"
            /\ Requests(last'.calls, "stop")
      /\ (appPhase \in HardFailure /\ last' # last /\ last'.op # "reset")
         => ~Requests(last'.calls, "speak")
      /\ (appPhase \in HardFailure
          /\ last'.op \in {"description_timeout", "image_timeout"})
         => phase' = phase ]_vars

\* C18: once the displayed phase is CAMERA_ERROR or POSE_INIT_ERROR, no step
\* other than a reset by the user (no detector-ready callback, effect, phase
\* sync or timer) takes it out of the hard failures.
C18_HardFailureIsTerminal ==
  [][ (appPhase \in HardFailure /\ last'.op # "reset")
      => appPhase' \in HardFailure ]_vars

\* C19: every step of the session requests at most one announcement (speak),
\* the completion of a hold, from CORRECTION to the next pose or to
\* COMPLETED, included.
SpeakRequests(calls) == {i \in 1..Len(calls) : calls[i].call = "speak"}

C19_AtMostOneAnnouncement == Cardinality(SpeakRequests(last.calls)) <= 1

\* C20: a configuration in which a criterion of a pose names a joint absent
\* from joint_definitions is detected when it is loaded: the displayed phase
\* goes from LOADING_CONFIG to CONFIG_ERROR and nowhere else, and the session
\* is never in CORRECTION with such a pose.
UndefinedJoints(conf, poseName) ==
  {i \in 1..Len(conf.poses[poseName].criteria) :
     conf.poses[poseName].criteria[i].joint \notin DOMAIN conf.joint_definitions}

HasUndefinedJoint(c) ==
  \E poseName \in DOMAIN ConfigOf(c).poses :
    UndefinedJoints(ConfigOf(c), poseName) # {}

C20_UndefinedJointIsConfigError ==
  (config # NoConfig /\ HasUndefinedJoint(config))
  => /\ appPhase \in {"LOADING_CONFIG", "CONFIG_ERROR"}
     /\ ~( phase = "CORRECTION" /\ currentPoseData # Null
           /\ UndefinedJoints(ConfigOf(config), currentPoseData) # {} )

\* C21: when a new configuration is supplied, the effect it sets off replaces
\* the working state of the session: pose_index is -1 and the pose data, the
\* angle details, the feedback, the hold timer and the pending phase timer of
\* the configuration before are cleared or cancelled.
C21_NewConfigReplacesWorkingState ==
  [][ (last.op = "reconfig" /\ last'.op = "effect")
      => /\ currentPoseIndex' = -1
         /\ currentPoseData' = Null
         /\ angleDetails' = <<>>
         /\ feedbackMessages' = <<>>
         /\ holdStartTime' = NoHold
         /\ phaseTimeoutRef' = NoTimer ]_vars

\* What a call of checkPoseAngles was given and what it returned, read by the
\* properties of the evaluator.
Returned(fn) == utilArgs.fn = fn /\ utilResult.returned

\* The positions in the returned angleDetails of the details named jointName.
DetailsNamed(jointName) ==
  {k \in 1..Len(utilResult.value.angleDetails) :
     utilResult.value.angleDetails[k].name = jointName}

\* The joint of the criterion has a definition.
Defined(criterion) == criterion.joint \in DOMAIN utilArgs.jointDefinitions

\* The three landmark names of the joint of the criterion.
NamesOf(criterion) ==
  LET lms == utilArgs.jointDefinitions[criterion.joint].landmarks
  IN  <<lms.A, lms.B, lms.C>>

\* The joint is defined and its three landmark names are names of the
\* detector's enumeration.
Resolved(criterion) ==
  /\ Defined(criterion)
  /\ \A n \in 1..3 : getLandmarkIndex(NamesOf(criterion)[n]) # -1

\* The joint is resolved and its three landmarks are in the landmark list.
Found(criterion) ==
  /\ Resolved(criterion)
  /\ \A n \in 1..3 :
       getLandmarkIndex(NamesOf(criterion)[n]) < Len(utilArgs.landmarksMp)

\* The n-th landmark of a found joint.
LandmarkOf(criterion, n) ==
  utilArgs.landmarksMp[getLandmarkIndex(NamesOf(criterion)[n]) + 1]

\* The three landmarks are found and each has a visibility above 0.3.
Measurable(criterion) ==
  /\ Found(criterion)
  /\ \A n \in 1..3 :
       /\ LandmarkOf(criterion, n).visibility # Undefined
       /\ LandmarkOf(criterion, n).visibility > VisThresholdTenths

\* C22: a joint whose three landmarks are present and visible gets a detail
\* with the angle of its landmarks; it is correct iff
\* min - tolerance <= angle <= max + tolerance, and when it is incorrect the
\* feedback is the below_min text iff angle < min - tolerance and the above_max
\* text otherwise.
C22_ToleranceWidenedRange ==
  Returned("checkPoseAngles")
  => \A i \in 1..Len(utilArgs.poseCriteria) :
       LET criterion == utilArgs.poseCriteria[i]
           lo == (criterion.angle_range[1] - utilArgs.tolerance) * MilliDeg
           hi == (criterion.angle_range[2] + utilArgs.tolerance) * MilliDeg
       IN  Measurable(criterion)
           => \E k \in DetailsNamed(criterion.joint) :
                LET d == utilResult.value.angleDetails[k]
                IN  /\ d.angle = calculateAngle(LandmarkOf(criterion, 1),
                                                LandmarkOf(criterion, 2),
                                                LandmarkOf(criterion, 3))
                    /\ d.is_correct <=> (lo <= d.angle /\ d.angle <= hi)
                    /\ ~d.is_correct
                       => d.feedback = IF d.angle < lo
                                       THEN criterion.feedback.below_min
                                       ELSE criterion.feedback.above_max

\* C22 witness: one call with a joint exactly at min - tolerance, correct, and
\* a joint one degree below it, incorrect with the below_min text.
C22_Witness ==
  /\ Returned("checkPoseAngles")
  /\ Len(utilArgs.poseCriteria) = 2
  /\ \A i \in 1..2 : Measurable(utilArgs.poseCriteria[i])
  /\ \E k, m \in 1..Len(utilResult.value.angleDetails) :
       LET d == utilResult.value.angleDetails[k]
           e == utilResult.value.angleDetails[m]
       IN  /\ d.is_correct
           /\ d.angle = (utilArgs.poseCriteria[k].angle_range[1]
                         - utilArgs.tolerance) * MilliDeg
           /\ ~e.is_correct
           /\ e.angle = (utilArgs.poseCriteria[m].angle_range[1]
                         - utilArgs.tolerance - 1) * MilliDeg
           /\ e.feedback = utilArgs.poseCriteria[m].feedback.below_min

\* The criterion's joint was resolved, found, visible and within its
\* tolerance-widened range.
WithinWidenedRange(criterion) ==
  /\ Measurable(criterion)
  /\ LET angle == calculateAngle(LandmarkOf(criterion, 1), LandmarkOf(criterion, 2),
                                 LandmarkOf(criterion, 3))
     IN  /\ (criterion.angle_range[1] - utilArgs.tolerance) * MilliDeg <= angle
         /\ angle <= (criterion.angle_range[2] + utilArgs.tolerance) * MilliDeg

\* C23: checkPoseAngles returns allJointsCorrect = true iff every joint named
\* in the criteria was resolved, found, visible and within its widened range;
\* one failing, undeterminable or unresolvable joint makes it false.
C23_AllCorrectIsConjunction ==
  Returned("checkPoseAngles")
  => ( utilResult.value.allJointsCorrect
       <=> \A i \in 1..Len(utilArgs.poseCriteria) :
             WithinWidenedRange(utilArgs.poseCriteria[i]) )

\* C23 witness: two joints, the first within its range and the second not
\* resolved, not found, not visible or out of range; the result is false.
C23_Witness ==
  /\ Returned("checkPoseAngles")
  /\ Len(utilArgs.poseCriteria) = 2
  /\ WithinWidenedRange(utilArgs.poseCriteria[1])
  /\ ~Defined(utilArgs.poseCriteria[2])
  /\ ~utilResult.value.allJointsCorrect

\* C24: checkPoseAngles returns exactly one AngleDetail per joint named in the
\* criteria, in the order of the criteria; a joint that cannot be resolved or
\* found has angle -1, is_correct false and a non-empty feedback.
C24_OneDetailPerJoint ==
  Returned("checkPoseAngles")
  => /\ Len(utilResult.value.angleDetails) = Len(utilArgs.poseCriteria)
     /\ \A i \in 1..Len(utilArgs.poseCriteria) :
          LET d == utilResult.value.angleDetails[i]
          IN  /\ d.name = utilArgs.poseCriteria[i].joint
              /\ ~Found(utilArgs.poseCriteria[i])
                 => d.angle = -1 /\ ~d.is_correct /\ d.feedback # <<>>

\* C25: for an empty landmark list and a pose with N criteria (every N in the
\* bound, 0 included), checkPoseAngles returns allJointsCorrect = false and
\* exactly N AngleDetails, each with angle -1 and a "not found" feedback.
NotFoundFeedback(jointName) ==
  <<ReplaceUnderscores(jointName), " points not found on body.">>

C25_EmptyLandmarks ==
  (Returned("checkPoseAngles") /\ utilArgs.landmarksMp = <<>>)
  => /\ ~utilResult.value.allJointsCorrect
     /\ Len(utilResult.value.angleDetails) = Len(utilArgs.poseCriteria)
     /\ \A i \in 1..Len(utilArgs.poseCriteria) :
          /\ utilResult.value.angleDetails[i].angle = -1
          /\ utilResult.value.angleDetails[i].feedback
               = NotFoundFeedback(utilArgs.poseCriteria[i].joint)

\* C26: calculateAngle(p1, p2, p3) returns 0 whenever p1 equals p2 or p3
\* equals p2 in the (x, y) projection, for all points of the grid, whatever
\* their z coordinates.
SameXY(p, q) == p.x = q.x /\ p.y = q.y

C26_DegenerateAngleIsZero ==
  (Returned("calculateAngle")
     /\ (SameXY(utilArgs.p1, utilArgs.p2) \/ SameXY(utilArgs.p3, utilArgs.p2)))
  => utilResult.value = 0

\* C26 witness: calculateAngle has returned 0 for a call whose third point
\* lies over the vertex at another z while the first ray has length.
C26_Witness ==
  /\ Returned("calculateAngle")
  /\ SameXY(utilArgs.p3, utilArgs.p2)
  /\ utilArgs.p3.z # utilArgs.p2.z
  /\ ~SameXY(utilArgs.p1, utilArgs.p2)
  /\ utilResult.value = 0

\* C27: after a stop, no text that was queued and not yet delivered when stop
\* was called is ever spoken (begun by the synthesizer), in every interleaving
\* of speak, stop, the delay timers and the end and error callbacks.
C27_StoppedTextNeverSpoken ==
  /\ ttsHist.discarded \cap tts.spoken = {}
  /\ ttsHist.discarded \cap Undelivered(tts) = {}

\* C27 witness: stop discarded a text that was never passed to the
\* synthesizer, and the synthesizer has just begun a text of a later speak.
C27_Witness ==
  /\ ttsHist.op = "begin"
  /\ \E d \in ttsHist.discarded :
       /\ \A i \in DOMAIN tts.synthLog : tts.synthLog[i] # d
       /\ tts.synthSpeaking.text > d

\* C28: announcements are started one at a time in the order speak was
\* called: the synthesizer never holds more than one utterance that has
\* neither ended, failed nor been cancelled, and the texts passed to it are in
\* the order of the speak calls, in every interleaving of speak, stop and the
\* end and error callbacks.
Live(t) ==
  Len(t.synthQueue) + (IF t.synthSpeaking = NoUtterance THEN 0 ELSE 1)

C28_OneAnnouncementAtATime ==
  /\ Live(tts) <= 1
  /\ \A i, j \in DOMAIN tts.synthLog : i < j => tts.synthLog[i] < tts.synthLog[j]

\* C29: in every reachable state -1 <= currentPoseIndex < Len(sequence), and
\* whenever the phase is DESCRIPTION, IMAGE or CORRECTION, currentPoseIndex >= 0
\* and the current pose data is poses[sequence[currentPoseIndex]].
SequenceLength == IF config = NoConfig THEN 0 ELSE Len(ConfigOf(config).sequence)

C29_PoseIndexInRange ==
  /\ -1 <= currentPoseIndex
  /\ currentPoseIndex < SequenceLength
  /\ phase \in {"DESCRIPTION", "IMAGE", "CORRECTION"}
     => /\ currentPoseIndex >= 0
        /\ currentPoseData = ConfigOf(config).sequence[currentPoseIndex + 1]

\* C30: whenever the phase is not CORRECTION, the hold timer is unset and
\* holdProgress is 0, also right after a manual phase override or a reset by
\* the [config, phase] effect that interrupts a running hold.
C30_NoHoldOutsideCorrection ==
  phase # "CORRECTION" => holdStartTime = NoHold /\ holdProgress = 0

\* C31: a frame delivered while the phase is not CORRECTION, or while there is
\* no current pose or no configuration, leaves phase, pose index, current
\* pose, angle details and feedback messages unchanged, requests no
\* announcement and does not start a hold timer.
C31_FrameOutsideCorrection ==
  [][ ( /\ last'.op = "frame" /\ now' = now
        /\ (phase # "CORRECTION" \/ currentPoseData = Null \/ config = NoConfig) )
      => /\ phase' = phase
         /\ currentPoseIndex' = currentPoseIndex
         /\ currentPoseData' = currentPoseData
         /\ currentPoseDisplayName' = currentPoseDisplayName
         /\ angleDetails' = angleDetails
         /\ feedbackMessages' = feedbackMessages
         /\ last'.calls = <<>>
         /\ holdStartTime' = NoHold ]_vars

\* C31 witness: a frame arrived outside CORRECTION while the pose, the angle
\* details and the feedback of an earlier frame were still in place; they are
\* kept.
C31_Witness ==
  /\ last.op = "frame" /\ last.frame = "skipped"
  /\ last.pre.phase # "CORRECTION" /\ phase = last.pre.phase
  /\ currentPoseData # Null /\ config # NoConfig
  /\ holdStartTime = NoHold
  /\ angleDetails # <<>>
  /\ feedbackMessages # <<>>

\* C32: the affirmation requested on hold completion is not discarded by the
\* stop request of the same advance: after the transition the speech hook
\* still holds it, queued or passed to the synthesizer, ahead of the
\* announcement of the next pose or of the completed workout.
Affirmations(calls) == {i \in SpeakRequests(calls) : calls[i].text = <<"Great!">>}

\* The texts the speech hook t holds, in the order in which they will be spoken.
Pending(t) ==
  (IF t.synthSpeaking = NoUtterance THEN <<>> ELSE <<t.synthSpeaking.text>>)
    \o [i \in DOMAIN t.synthQueue |-> t.synthQueue[i].text]
    \o t.queueRef

C32_AffirmationSurvivesAdvance ==
  (last.op = "frame" /\ last.advanced)
  => /\ Affirmations(last.calls) # {}
     /\ \A isSpeaking \in BOOLEAN :
          LET pending == Pending(DeliverCalls(last.calls, 1, TtsMounted(isSpeaking)))
          IN  /\ pending # <<>>
              /\ Head(pending) \in Affirmations(last.calls)

\* C33: in CORRECTION, whenever a processed frame with a body is not
\* all-correct, so that the hold timer is withheld, at least one feedback
\* message is exposed: progress is never withheld over an empty feedback list.
C33_WithheldHoldHasFeedback ==
  (last.op = "frame" /\ last.frame = "bad")
  => feedbackMessages # <<>>

\* C34: with a non-empty sequence and the workout started only from IDLE, the
\* phase COMPLETED is reached only after every pose of the sequence has, in
\* the order of the sequence and without one skipped or repeated, been held
\* all-correct in CORRECTION for the hold duration.
EndsWith(s, tail) ==
  /\ Len(s) >= Len(tail)
  /\ SubSeq(s, Len(s) - Len(tail) + 1, Len(s)) = tail

C35_EventuallyCompleted ==
  (last.op = "start" /\ phase = "DESCRIPTION") ~> (phase = "COMPLETED")

====
